---- MODULE Spec2Model ----
(***************************************************************************)
(* The campaign run loop of the Instagram DM outreach service:             *)
(* CampaignService.processCampaign and the account quota ledger it uses,   *)
(* as a state machine over the persisted tables (campaign, steps,          *)
(* recipients, ledger, messages, conversations) and the position of each   *)
(* processCampaign invocation.  Every persistence call of the handler is   *)
(* one atomic step, because each is a separate awaited database call.      *)
(***************************************************************************)
EXTENDS Integers, Sequences, FiniteSets, TLC

\* ------------------------------------------------------------- bounds
NumRecipients == 2
MaxTicks == 2
MaxPerDay == 2
MaxStartCount == 1
MaxSends == 4
MaxOverlaps == 2
MaxFaults == 2
NumAssignments == 3
LiveTicks == 4
MaxCalls == 4

\* ---------------------------------------------------------- constants
NULL == -1
MsPerDay == 86400000
MsPerMinute == 60 * 1000
TickMs == MsPerDay \div 2

Accounts == {"a1", "a2"}
AccountOrder == <<"a1", "a2">>
Recipients == 1..NumRecipients
Invocations == {"i1", "i2"}
Times == {k * TickMs : k \in 0..MaxTicks}
Delays == {0, TickMs \div MsPerMinute}
TransportErrors == {"user not found", ""}
ExceptionMessage == "unexpected"
PersistenceError == "database error"

VARIABLES
  campaign,       \* the campaign row: status, messagesPerDay, counters, completedAt
  steps,          \* the campaign's steps, ordered by stepOrder
  junction,       \* accounts linked through campaign_accounts
  legacy,         \* the legacy campaigns.instagram_account_id, or "none"
  rcp,            \* recipient id -> the campaign_recipients row
  ledger,         \* <<account, date>> -> messageCount, one entry per row
  messages,       \* the Message rows, in creation order
  conversations,  \* the Conversation rows, as <<account, contact>> keys
  delivered,      \* history: every sendDM call that delivered its message
  clock,          \* the latest time any invocation has read
  overlaps,       \* history: how many invocations started while another ran
  skipped,        \* history: <<recipient, date>> passed over at the daily limit
  faults,         \* history: how many persistence calls have rejected
  inv,            \* invocation -> its position and locals
  sch,            \* the assignRecipientsAndSchedule call: inputs, position, locals
  rendering,      \* the personalizeMessage call: template, contact, message
  accountRows,    \* account -> the instagram_accounts row: isActive, accessToken
  legacyRun,      \* the tables as the legacy single-account service leaves them
  webhook         \* the inbound side: contacts, conversations, messages, deliveries

vars == <<campaign, steps, junction, legacy, rcp, ledger, messages,
          conversations, delivered, clock, overlaps, skipped, faults, inv,
          sch, rendering, accountRows, legacyRun, webhook>>

config == <<steps, junction, legacy>>

\* the calls made when a campaign is composed, which the run loop leaves alone
composing == <<sch, rendering>>

\* the routes and services around the run loop, which the run loop leaves alone
surroundings == <<accountRows, legacyRun, webhook>>

\* campaigns.send_start_time and campaigns.send_end_time, as <<hour, minute>>:
\* the columns the select of processCampaign leaves out (lines 125-146)
send_start_time == <<9, 0>>
send_end_time == <<17, 0>>

\* ------------------------------------------------------ pure helpers
\* date.toISOString().split('T')[0]: the UTC calendar date of a timestamp
UtcDate(t) == t \div MsPerDay

SeqOf(S, order) == SelectSeq(order, LAMBDA x : x \in S)

RECURSIVE SetToSeq(_)
SetToSeq(S) ==
  IF S = {} THEN <<>>
  ELSE LET m == CHOOSE x \in S : \A y \in S : x <= y
       IN <<m>> \o SetToSeq(S \ {m})

\* campaign.steps.find(s => s.stepOrder === order); <<>> when there is none
FindStep(order) ==
  LET hits == {k \in 1..Len(steps) : steps[k].stepOrder = order}
  IN IF hits = {} THEN <<>> ELSE <<steps[CHOOSE k \in hits : \A j \in hits : k <= j]>>

MaxStepOrder ==
  IF Len(steps) = 0 THEN 0
  ELSE CHOOSE m \in {steps[k].stepOrder : k \in 1..Len(steps)} :
         \A k \in 1..Len(steps) : steps[k].stepOrder <= m

\* the account lookup that prefers the legacy single account
getCampaignAccountsLegacyFirst ==
  IF legacy # "none" THEN <<legacy>>
  ELSE IF junction # {} THEN SeqOf(junction, AccountOrder)
  ELSE <<>>

\* getCampaignAccounts: the junction first, then the legacy single account
getCampaignAccounts ==
  IF junction # {} THEN SeqOf(junction, AccountOrder)
  ELSE IF legacy # "none" THEN <<legacy>>
  ELSE <<>>

\* getAccountDailyCount: count?.messageCount || 0, no write
getAccountDailyCount(a, t) ==
  IF <<a, UtcDate(t)>> \in DOMAIN ledger THEN ledger[<<a, UtcDate(t)>>] ELSE 0

\* the upsert, creating the row with a count of 0
incrementAccountDailyCountFromZero(a, t) ==
  LET key == <<a, UtcDate(t)>>
  IN IF key \in DOMAIN ledger
     THEN [ledger EXCEPT ![key] = @ + 1]
     ELSE [k \in DOMAIN ledger \cup {key} |-> IF k = key THEN 0 ELSE ledger[k]]

\* incrementAccountDailyCount: upsert, create with 1 or increment by 1
incrementAccountDailyCount(a, t) ==
  LET key == <<a, UtcDate(t)>>
  IN IF key \in DOMAIN ledger
     THEN [ledger EXCEPT ![key] = @ + 1]
     ELSE [k \in DOMAIN ledger \cup {key} |-> IF k = key THEN 1 ELSE ledger[k]]

\* the where clause with FAILED among the loaded statuses
IsOpenOrFailed(row) == row.status \in {"PENDING", "IN_PROGRESS", "FAILED"}

\* the where clause of the recipient load and of the completion count
IsOpen(row) == row.status \in {"PENDING", "IN_PROGRESS"}

\* the due check: not (nextProcessAt && nextProcessAt > now)
IsDue(row, now) == ~(row.nextProcessAt # NULL /\ row.nextProcessAt > now)

\* the failure text, dropping what the transport reported
ErrorTextUnknown(e) == "Unknown error"

\* result.error || "Unknown error"
ErrorText(e) == IF e = "" THEN "Unknown error" ELSE e

\* no assignRecipientsAndSchedule call and no personalizeMessage call is made
NoSchedule == [pc |-> "none"]
NoRendering == [pc |-> "none"]

\* every account is connected: its row is active and holds an accessToken;
\* inFlight is history, the invocations that were running when the account
\* was last disconnected
ConnectedRows ==
  [a \in Accounts |-> [isActive |-> TRUE, accessToken |-> TRUE, inFlight |-> {}]]

\* the legacy service is not run and no webhook event is delivered
NoLegacyRun == [pc |-> "none"]
NoWebhook == [pc |-> "none"]

InitSurroundings ==
  /\ accountRows = ConnectedRows
  /\ legacyRun = NoLegacyRun
  /\ webhook = NoWebhook

\* ------------------------------------------------------ initial state
\* an invocation that is not running.  dailyCount is the local of line 188;
\* entered (the accounts whose recipient loop was entered), noCookies (the
\* accounts for which getCookiesForAccount returned null) and pre (the
\* campaign row and the ledger as they were at the load) are history, read
\* by no action.
IdleInv ==
  [pc |-> "idle", now |-> 0, snap |-> <<>>, accountsLeft |-> <<>>,
   recipientsLeft |-> <<>>, dailyCount |-> 0, error |-> "", outcome |-> "none",
   entered |-> {}, noCookies |-> {}, pre |-> <<>>]

\* the step lists a campaign is given: stepOrder 1..n, each step with its delay
StepLists ==
  {<<>>, <<[stepOrder |-> 1, delayMinutes |-> 0]>>}
  \cup {<<[stepOrder |-> 1, delayMinutes |-> d[1]], [stepOrder |-> 2, delayMinutes |-> d[2]]>> :
          d \in {x \in Delays \X Delays : x[1] # x[2]}}

\* junction accounts and legacy account of the campaign
FullLinks == <<Accounts, "none">>
AccountLinks == {FullLinks, <<{}, "a1">>, <<{"a1"}, "a2">>, <<{}, "none">>}

\* the rows that stand for an account's earlier sends of today
PriorMessages(a, n) ==
  [k \in 1..n |-> [account |-> a, contact |-> 0, direction |-> "OUTBOUND",
                   status |-> "SENT", sentAt |-> 0, stepOrder |-> 0]]

\* A one-step campaign that passes the guards of processCampaign with both
\* accounts linked is started from every quota, ledger count and schedule; a
\* two-step campaign with the largest quota, an empty ledger and every
\* recipient due; each guard case (not RUNNING, no steps, other account links)
\* from one quota and schedule.  Recipient 1 is assigned to the first account.
InitTables ==
  /\ \E st \in {"RUNNING", "DRAFT"}, m \in 0..MaxPerDay, l \in AccountLinks,
        n \in 0..MaxStartCount, sched \in [Recipients -> {NULL, TickMs}] :
       /\ campaign = [status |-> st, messagesPerDay |-> m, sentCount |-> 0,
                      failedCount |-> 0, completedAt |-> NULL]
       /\ steps \in StepLists
       /\ junction = l[1] /\ legacy = l[2]
       /\ \/ st = "RUNNING" /\ Len(steps) = 1 /\ l = FullLinks
          \/ st = "RUNNING" /\ Len(steps) = 2 /\ l = FullLinks /\ m = MaxPerDay /\ n = 0
             /\ \A r \in Recipients : sched[r] = NULL
          \/ m = 1 /\ n = 0 /\ \A r \in Recipients : sched[r] = NULL
       /\ \E assign \in {f \in [Recipients -> Accounts] : f[1] = "a1"} :
            rcp = [r \in Recipients |->
                     [status |-> "PENDING", currentStepOrder |-> 0,
                      assignedAccountId |-> assign[r], nextProcessAt |-> sched[r],
                      lastProcessedAt |-> NULL, errorMessage |-> ""]]
       /\ ledger = IF n = 0 THEN <<>> ELSE [k \in {<<"a1", 0>>} |-> n]
       /\ messages = PriorMessages("a1", n)
       /\ conversations = IF n = 0 THEN {} ELSE {<<"a1", 0>>}
  /\ delivered = <<>>
  /\ overlaps = 0
  /\ skipped = {}
  /\ faults = 0
  /\ inv = [i \in Invocations |-> IdleInv]
  /\ sch = NoSchedule
  /\ rendering = NoRendering
  /\ InitSurroundings

Init == InitTables /\ clock = 0

\* ------------------------------------------------------------ actions
Return(i, how) == [inv EXCEPT ![i] = [IdleInv EXCEPT !.outcome = how]]

\* the load without the status guard
LoadAnyStatus(i, t) ==
  /\ inv[i].pc = "idle"
  /\ t >= clock
  /\ clock' = t
  /\ inv' =
       IF Len(steps) = 0 THEN Return(i, "returned")
       ELSE IF Len(getCampaignAccounts) = 0 THEN Return(i, "threw")
       ELSE [inv EXCEPT ![i] =
               [pc |-> "account", now |-> t,
                snap |-> [r \in {x \in Recipients : IsOpen(rcp[x])} |-> rcp[r]],
                accountsLeft |-> getCampaignAccounts, recipientsLeft |-> <<>>,
                dailyCount |-> 0, error |-> "", outcome |-> "running",
                entered |-> {}, noCookies |-> {},
                pre |-> [campaign |-> campaign, ledger |-> ledger]]]
  /\ UNCHANGED <<campaign, config, rcp, ledger, messages, conversations, delivered, skipped, faults>>

\* lines 124-170: load the campaign with its steps and open recipients,
\* the guards, the accounts, and now = new Date()
Load(i, t) ==
  /\ inv[i].pc = "idle"
  /\ t >= clock
  /\ clock' = t
  /\ inv' =
       IF campaign.status # "RUNNING" THEN Return(i, "returned")
       ELSE IF Len(steps) = 0 THEN Return(i, "returned")
       ELSE IF Len(getCampaignAccounts) = 0 THEN Return(i, "threw")
       ELSE [inv EXCEPT ![i] =
               [pc |-> "account", now |-> t,
                snap |-> [r \in {x \in Recipients : IsOpen(rcp[x])} |-> rcp[r]],
                accountsLeft |-> getCampaignAccounts, recipientsLeft |-> <<>>,
                dailyCount |-> 0, error |-> "", outcome |-> "running",
                entered |-> {}, noCookies |-> {},
                pre |-> [campaign |-> campaign, ledger |-> ledger]]]
  /\ UNCHANGED <<campaign, config, rcp, ledger, messages, conversations, delivered, skipped, faults>>

CurAccount(i) == Head(inv[i].accountsLeft)
CurRecipient(i) == Head(inv[i].recipientsLeft)
\* the step lookup, off by one
CurrentStepOfSkipping(i, r) == FindStep(inv[i].snap[r].currentStepOrder + 2)

\* currentStep: the step with stepOrder == recipient.currentStepOrder + 1, the
\* recipient being the row of the invocation's snapshot; <<>> when there is none
CurrentStepOf(i, r) == FindStep(inv[i].snap[r].currentStepOrder + 1)
CurStep(i) == CurrentStepOf(i, CurRecipient(i))[1]

\* the account loop moves on: to the next account, or past the loop to the count
NextAccount(i) ==
  [inv EXCEPT ![i].accountsLeft = Tail(@), ![i].recipientsLeft = <<>>,
              ![i].dailyCount = 0,
              ![i].pc = IF Tail(inv[i].accountsLeft) = <<>> THEN "count" ELSE "account"]

\* the recipient loop moves on: to the next due recipient, or to the next account
NextRecipient(i) ==
  IF Tail(inv[i].recipientsLeft) = <<>>
  THEN [NextAccount(i) EXCEPT ![i].error = ""]
  ELSE [inv EXCEPT ![i].recipientsLeft = Tail(@), ![i].pc = "recipient", ![i].error = ""]

\* the recipient loop without its due check
DueRecipientsUnchecked(i, a) ==
  {r \in DOMAIN inv[i].snap : inv[i].snap[r].assignedAccountId = a}

\* lines 199-202: the recipients of the account that pass the due check, in
\* snapshot order (the loop skips the others with continue)
DueRecipients(i, a) ==
  {r \in DOMAIN inv[i].snap :
     /\ inv[i].snap[r].assignedAccountId = a
     /\ IsDue(inv[i].snap[r], inv[i].now)}

\* the account loop head, giving up the remaining accounts when an account
\* has no cookies
AccountStepAborting(i, cookies) ==
  /\ inv[i].pc = "account"
  /\ LET a == CurAccount(i)
         accountRecipients ==
           {r \in DOMAIN inv[i].snap : inv[i].snap[r].assignedAccountId = a}
     IN inv' =
          IF accountRecipients = {} THEN NextAccount(i)
          ELSE IF ~cookies
               THEN [inv EXCEPT ![i].accountsLeft = <<>>, ![i].recipientsLeft = <<>>,
                                ![i].pc = "count", ![i].noCookies = @ \cup {a}]
          ELSE IF getAccountDailyCount(a, inv[i].now) >= campaign.messagesPerDay
               THEN NextAccount(i)
          ELSE IF DueRecipients(i, a) = {}
               THEN [NextAccount(i) EXCEPT ![i].entered = @ \cup {a}]
          ELSE [inv EXCEPT ![i].pc = "recipient",
                           ![i].recipientsLeft = SetToSeq(DueRecipients(i, a)),
                           ![i].dailyCount = getAccountDailyCount(a, inv[i].now),
                           ![i].entered = @ \cup {a}]
  /\ skipped' =
       IF /\ cookies
          /\ getAccountDailyCount(CurAccount(i), inv[i].now) >= campaign.messagesPerDay
       THEN skipped \cup {<<r, UtcDate(inv[i].now)>> : r \in DueRecipients(i, CurAccount(i))}
       ELSE skipped
  /\ UNCHANGED <<campaign, config, rcp, ledger, messages, conversations, delivered, clock, overlaps, faults>>

\* the account loop head, entering the loop when the count equals the limit
AccountStepOverLimit(i, cookies) ==
  /\ inv[i].pc = "account"
  /\ LET a == CurAccount(i)
         accountRecipients ==
           {r \in DOMAIN inv[i].snap : inv[i].snap[r].assignedAccountId = a}
     IN inv' =
          IF accountRecipients = {} THEN NextAccount(i)
          ELSE IF ~cookies THEN [NextAccount(i) EXCEPT ![i].noCookies = @ \cup {a}]
          ELSE IF getAccountDailyCount(a, inv[i].now) > campaign.messagesPerDay
               THEN NextAccount(i)
          ELSE IF DueRecipients(i, a) = {}
               THEN [NextAccount(i) EXCEPT ![i].entered = @ \cup {a}]
          ELSE [inv EXCEPT ![i].pc = "recipient",
                           ![i].recipientsLeft = SetToSeq(DueRecipients(i, a)),
                           ![i].dailyCount = getAccountDailyCount(a, inv[i].now),
                           ![i].entered = @ \cup {a}]
  /\ skipped' =
       IF /\ cookies
          /\ getAccountDailyCount(CurAccount(i), inv[i].now) > campaign.messagesPerDay
       THEN skipped \cup {<<r, UtcDate(inv[i].now)>> : r \in DueRecipients(i, CurAccount(i))}
       ELSE skipped
  /\ UNCHANGED <<campaign, config, rcp, ledger, messages, conversations, delivered, clock, overlaps, faults>>

\* the account loop head, with a count read that creates the missing row
AccountStepCreatingRow(i, cookies) ==
  /\ inv[i].pc = "account"
  /\ LET a == CurAccount(i)
         accountRecipients ==
           {r \in DOMAIN inv[i].snap : inv[i].snap[r].assignedAccountId = a}
         key == <<a, UtcDate(inv[i].now)>>
     IN /\ inv' =
             IF accountRecipients = {} THEN NextAccount(i)
             ELSE IF ~cookies THEN [NextAccount(i) EXCEPT ![i].noCookies = @ \cup {a}]
             ELSE IF getAccountDailyCount(a, inv[i].now) >= campaign.messagesPerDay
                  THEN NextAccount(i)
             ELSE IF DueRecipients(i, a) = {}
                  THEN [NextAccount(i) EXCEPT ![i].entered = @ \cup {a}]
             ELSE [inv EXCEPT ![i].pc = "recipient",
                              ![i].recipientsLeft = SetToSeq(DueRecipients(i, a)),
                              ![i].dailyCount = getAccountDailyCount(a, inv[i].now),
                              ![i].entered = @ \cup {a}]
        /\ ledger' =
             IF accountRecipients # {} /\ cookies /\ key \notin DOMAIN ledger
             THEN [k \in DOMAIN ledger \cup {key} |-> IF k = key THEN 0 ELSE ledger[k]]
             ELSE ledger
  /\ skipped' =
       IF /\ cookies
          /\ getAccountDailyCount(CurAccount(i), inv[i].now) >= campaign.messagesPerDay
       THEN skipped \cup {<<r, UtcDate(inv[i].now)>> : r \in DueRecipients(i, CurAccount(i))}
       ELSE skipped
  /\ UNCHANGED <<campaign, config, rcp, messages, conversations, delivered, clock, overlaps, faults>>

\* lines 173-197: one iteration head of the account loop.  cookies is what
\* getCookiesForAccount finds: whether the account row holds an accessToken
\* that decrypts, which the connect and disconnect routes decide, not this loop.
AccountStep(i, cookies) ==
  /\ inv[i].pc = "account"
  /\ LET a == CurAccount(i)
         accountRecipients ==
           {r \in DOMAIN inv[i].snap : inv[i].snap[r].assignedAccountId = a}
     IN inv' =
          IF accountRecipients = {} THEN NextAccount(i)
          ELSE IF ~cookies THEN [NextAccount(i) EXCEPT ![i].noCookies = @ \cup {a}]
          ELSE IF getAccountDailyCount(a, inv[i].now) >= campaign.messagesPerDay
               THEN NextAccount(i)
          ELSE IF DueRecipients(i, a) = {}
               THEN [NextAccount(i) EXCEPT ![i].entered = @ \cup {a}]
          ELSE [inv EXCEPT ![i].pc = "recipient",
                           ![i].recipientsLeft = SetToSeq(DueRecipients(i, a)),
                           ![i].dailyCount = getAccountDailyCount(a, inv[i].now),
                           ![i].entered = @ \cup {a}]
  /\ skipped' =
       IF /\ cookies
          /\ getAccountDailyCount(CurAccount(i), inv[i].now) >= campaign.messagesPerDay
       THEN skipped \cup {<<r, UtcDate(inv[i].now)>> : r \in DueRecipients(i, CurAccount(i))}
       ELSE skipped
  /\ UNCHANGED <<campaign, config, rcp, ledger, messages, conversations, delivered, clock, overlaps, faults>>

\* lines 204-218: no next step, so the recipient is marked COMPLETED
CompleteRecipient(i) ==
  /\ inv[i].pc = "recipient"
  /\ CurrentStepOf(i, CurRecipient(i)) = <<>>
  /\ rcp' = [rcp EXCEPT ![CurRecipient(i)].status = "COMPLETED",
                        ![CurRecipient(i)].lastProcessedAt = inv[i].now]
  /\ inv' = NextRecipient(i)
  /\ UNCHANGED <<campaign, config, ledger, messages, conversations, delivered, clock, overlaps, skipped, faults>>

\* the invocation is about to call sendDM for its current recipient
AboutToSend(i) ==
  /\ inv[i].pc = "recipient"
  /\ CurrentStepOf(i, CurRecipient(i)) # <<>>

\* lines 249-255: sendDM delivers and returns success
SendOk(i) ==
  /\ AboutToSend(i)
  /\ Len(delivered) < MaxSends
  /\ delivered' = Append(delivered,
                         [recipient |-> CurRecipient(i), stepOrder |-> CurStep(i).stepOrder,
                          account |-> CurAccount(i), at |-> inv[i].now])
  /\ inv' = [inv EXCEPT ![i].pc = "s1"]
  /\ UNCHANGED <<campaign, config, rcp, ledger, messages, conversations, clock, overlaps, skipped, faults>>

\* lines 249-255, 302: sendDM returns a structured failure
SendFail(i, e) ==
  /\ AboutToSend(i)
  /\ inv' = [inv EXCEPT ![i].pc = "f1", ![i].error = e]
  /\ UNCHANGED <<campaign, config, rcp, ledger, messages, conversations, delivered, clock, overlaps, skipped, faults>>

\* lines 220-253, 322: an exception is thrown before the send returns
SendThrow(i) ==
  /\ AboutToSend(i)
  /\ inv' = [inv EXCEPT ![i].pc = "catch", ![i].error = ExceptionMessage]
  /\ UNCHANGED <<campaign, config, rcp, ledger, messages, conversations, delivered, clock, overlaps, skipped, faults>>

\* the success update, with currentStepOrder reset once the last step is sent
SuccessRecipientRowReset(row, currentStep, nextStep, now) ==
  LET delayMinutes == IF nextStep = <<>> THEN 0 ELSE nextStep[1].delayMinutes
      nextProcessAt == now + delayMinutes * MsPerMinute
  IN [row EXCEPT !.status = "IN_PROGRESS",
                 !.currentStepOrder = IF nextStep = <<>> THEN 0 ELSE currentStep.stepOrder,
                 !.lastProcessedAt = now,
                 !.nextProcessAt = IF nextStep # <<>> THEN nextProcessAt ELSE NULL]

\* the success update, marking the recipient COMPLETED once the last step is sent
SuccessRecipientRowCompleting(row, currentStep, nextStep, now) ==
  LET delayMinutes == IF nextStep = <<>> THEN 0 ELSE nextStep[1].delayMinutes
      nextProcessAt == now + delayMinutes * MsPerMinute
  IN [row EXCEPT !.status = IF nextStep = <<>> THEN "COMPLETED" ELSE "IN_PROGRESS",
                 !.currentStepOrder = currentStep.stepOrder,
                 !.lastProcessedAt = now,
                 !.nextProcessAt = IF nextStep # <<>> THEN nextProcessAt ELSE NULL]

\* the success update, waiting for the delay of the step just sent
SuccessRecipientRowOwnDelay(row, currentStep, nextStep, now) ==
  LET delayMinutes == currentStep.delayMinutes
      nextProcessAt == now + delayMinutes * MsPerMinute
  IN [row EXCEPT !.status = "IN_PROGRESS",
                 !.currentStepOrder = currentStep.stepOrder,
                 !.lastProcessedAt = now,
                 !.nextProcessAt = IF nextStep # <<>> THEN nextProcessAt ELSE NULL]

\* the success update, making the next step eligible at once
SuccessRecipientRowNoWait(row, currentStep, nextStep, now) ==
  [row EXCEPT !.status = "IN_PROGRESS",
              !.currentStepOrder = currentStep.stepOrder,
              !.lastProcessedAt = now,
              !.nextProcessAt = IF nextStep # <<>> THEN now ELSE NULL]

\* lines 256-273: the recipient update of the success branch
SuccessRecipientRow(row, currentStep, nextStep, now) ==
  LET delayMinutes == IF nextStep = <<>> THEN 0 ELSE nextStep[1].delayMinutes
      nextProcessAt == now + delayMinutes * MsPerMinute
  IN [row EXCEPT !.status = "IN_PROGRESS",
                 !.currentStepOrder = currentStep.stepOrder,
                 !.lastProcessedAt = now,
                 !.nextProcessAt = IF nextStep # <<>> THEN nextProcessAt ELSE NULL]

UpdateRecipientSent(i) ==
  /\ inv[i].pc = "s1"
  /\ LET r == CurRecipient(i)
         nextStep == FindStep(inv[i].snap[r].currentStepOrder + 2)
     IN rcp' = [rcp EXCEPT ![r] = SuccessRecipientRow(@, CurStep(i), nextStep, inv[i].now)]
  /\ inv' = [inv EXCEPT ![i].pc = "s2"]
  /\ UNCHANGED <<campaign, config, ledger, messages, conversations, delivered, clock, overlaps, skipped, faults>>

\* the message record filed under the campaign's first account
CreateMessageFirstAccount(i) ==
  /\ inv[i].pc = "s2"
  /\ conversations' = conversations \cup {<<AccountOrder[1], CurRecipient(i)>>}
  /\ messages' = Append(messages,
                        [account |-> AccountOrder[1], contact |-> CurRecipient(i),
                         direction |-> "OUTBOUND", status |-> "SENT",
                         sentAt |-> inv[i].now, stepOrder |-> CurStep(i).stepOrder])
  /\ inv' = [inv EXCEPT ![i].pc = "s3"]
  /\ UNCHANGED <<campaign, config, rcp, ledger, delivered, clock, overlaps, skipped, faults>>

\* lines 275-288 and 572-596: getOrCreateConversation, then message.create
CreateMessage(i) ==
  /\ inv[i].pc = "s2"
  /\ conversations' = conversations \cup {<<CurAccount(i), CurRecipient(i)>>}
  /\ messages' = Append(messages,
                        [account |-> CurAccount(i), contact |-> CurRecipient(i),
                         direction |-> "OUTBOUND", status |-> "SENT",
                         sentAt |-> inv[i].now, stepOrder |-> CurStep(i).stepOrder])
  /\ inv' = [inv EXCEPT ![i].pc = "s3"]
  /\ UNCHANGED <<campaign, config, rcp, ledger, delivered, clock, overlaps, skipped, faults>>

\* the sentCount update that counts first steps only
IncrementSentCountFirstStepOnly(i) ==
  /\ inv[i].pc = "s3"
  /\ campaign' = [campaign EXCEPT !.sentCount = IF CurStep(i).stepOrder = 1 THEN @ + 1 ELSE @]
  /\ inv' = [inv EXCEPT ![i].pc = "s4"]
  /\ UNCHANGED <<config, rcp, ledger, messages, conversations, delivered, clock, overlaps, skipped, faults>>

\* lines 290-296: sentCount: { increment: 1 }
IncrementSentCount(i) ==
  /\ inv[i].pc = "s3"
  /\ campaign' = [campaign EXCEPT !.sentCount = @ + 1]
  /\ inv' = [inv EXCEPT ![i].pc = "s4"]
  /\ UNCHANGED <<config, rcp, ledger, messages, conversations, delivered, clock, overlaps, skipped, faults>>

\* the ledger increment done as a write of the count read at line 188 plus one
IncrementLedgerFromRead(i) ==
  /\ inv[i].pc = "s4"
  /\ ledger' =
       LET key == <<CurAccount(i), UtcDate(inv[i].now)>>
       IN [k \in DOMAIN ledger \cup {key} |->
             IF k = key THEN inv[i].dailyCount + 1 ELSE ledger[k]]
  /\ inv' = NextRecipient(i)
  /\ UNCHANGED <<campaign, config, rcp, messages, conversations, delivered, clock, overlaps, skipped, faults>>

\* lines 298-301, 320-321: the ledger increment, then on to the next recipient
IncrementLedger(i) ==
  /\ inv[i].pc = "s4"
  /\ ledger' = incrementAccountDailyCount(CurAccount(i), inv[i].now)
  /\ inv' = NextRecipient(i)
  /\ UNCHANGED <<campaign, config, rcp, messages, conversations, delivered, clock, overlaps, skipped, faults>>

\* lines 303-310: the recipient update of the failure branch
UpdateRecipientFailed(i) ==
  /\ inv[i].pc = "f1"
  /\ rcp' = [rcp EXCEPT ![CurRecipient(i)].status = "FAILED",
                        ![CurRecipient(i)].errorMessage = ErrorText(inv[i].error)]
  /\ inv' = [inv EXCEPT ![i].pc = "f2"]
  /\ UNCHANGED <<campaign, config, ledger, messages, conversations, delivered, clock, overlaps, skipped, faults>>

\* lines 312-321: failedCount: { increment: 1 }, then on to the next recipient
IncrementFailedCount(i) ==
  /\ inv[i].pc = "f2"
  /\ campaign' = [campaign EXCEPT !.failedCount = @ + 1]
  /\ inv' = NextRecipient(i)
  /\ UNCHANGED <<config, rcp, ledger, messages, conversations, delivered, clock, overlaps, skipped, faults>>

\* the catch block, leaving the account's remaining recipients unprocessed
CatchRecipientLeavingLoop(i) ==
  /\ inv[i].pc = "catch"
  /\ rcp' = [rcp EXCEPT ![CurRecipient(i)].status = "FAILED",
                        ![CurRecipient(i)].errorMessage = inv[i].error]
  /\ inv' = [NextAccount(i) EXCEPT ![i].error = ""]
  /\ UNCHANGED <<campaign, config, ledger, messages, conversations, delivered, clock, overlaps, skipped, faults>>

\* lines 322-333: the catch block marks the recipient FAILED
CatchRecipient(i) ==
  /\ inv[i].pc = "catch"
  /\ rcp' = [rcp EXCEPT ![CurRecipient(i)].status = "FAILED",
                        ![CurRecipient(i)].errorMessage = inv[i].error]
  /\ inv' = NextRecipient(i)
  /\ UNCHANGED <<campaign, config, ledger, messages, conversations, delivered, clock, overlaps, skipped, faults>>

\* the completion count, counting only the PENDING recipients
CountRemainingPendingOnly(i) ==
  /\ inv[i].pc = "count"
  /\ LET remainingRecipients ==
           Cardinality({r \in Recipients : rcp[r].status = "PENDING"})
     IN inv' = IF remainingRecipients = 0
               THEN [inv EXCEPT ![i].pc = "mark"]
               ELSE Return(i, "returned")
  /\ UNCHANGED <<campaign, config, rcp, ledger, messages, conversations, delivered, clock, overlaps, skipped, faults>>

\* lines 337-345: count the recipients still PENDING or IN_PROGRESS
CountRemaining(i) ==
  /\ inv[i].pc = "count"
  /\ LET remainingRecipients == Cardinality({r \in Recipients : IsOpen(rcp[r])})
     IN inv' = IF remainingRecipients = 0
               THEN [inv EXCEPT ![i].pc = "mark"]
               ELSE Return(i, "returned")
  /\ UNCHANGED <<campaign, config, rcp, ledger, messages, conversations, delivered, clock, overlaps, skipped, faults>>

\* lines 346-358: mark the campaign COMPLETED
MarkCompleted(i) ==
  /\ inv[i].pc = "mark"
  /\ campaign' = [campaign EXCEPT !.status = "COMPLETED", !.completedAt = inv[i].now]
  /\ inv' = Return(i, "returned")
  /\ UNCHANGED <<config, rcp, ledger, messages, conversations, delivered, clock, overlaps, skipped, faults>>

NoneRunning == \A j \in Invocations : inv[j].pc = "idle"

\* the trigger starts processCampaign while no invocation is running
Start(i) ==
  \E t \in Times : i = "i1" /\ NoneRunning /\ Load(i, t) /\ UNCHANGED overlaps

\* the trigger starts processCampaign while another invocation is running
StartOverlapping(i) ==
  \E t \in Times :
    /\ ~NoneRunning
    /\ overlaps < MaxOverlaps
    /\ Load(i, t)
    /\ overlaps' = overlaps + 1

Step(i) ==
  \/ \E cookies \in BOOLEAN : AccountStep(i, cookies)
  \/ CompleteRecipient(i)
  \/ SendOk(i)
  \/ \E e \in TransportErrors : SendFail(i, e)
  \/ SendThrow(i)
  \/ UpdateRecipientSent(i)
  \/ CreateMessage(i)
  \/ IncrementSentCount(i)
  \/ IncrementLedger(i)
  \/ UpdateRecipientFailed(i)
  \/ IncrementFailedCount(i)
  \/ CatchRecipient(i)
  \/ CountRemaining(i)
  \/ MarkCompleted(i)

\* invocations one at a time
Next ==
  /\ \E i \in Invocations : Start(i) \/ Step(i)
  /\ UNCHANGED <<composing, surroundings>>

Spec == Init /\ [][Next]_vars

\* invocations that may overlap
NextOverlap ==
  /\ \E i \in Invocations : Start(i) \/ StartOverlapping(i) \/ Step(i)
  /\ UNCHANGED <<composing, surroundings>>

\* overlap is explored for campaigns that pass the guards, with the largest
\* quota, an empty ledger, every recipient due and assigned to the first
\* account, and with every invocation reading the same time (the last tick)
InitOverlap ==
  /\ InitTables
  /\ clock = MaxTicks * TickMs
  /\ campaign.status = "RUNNING" /\ campaign.messagesPerDay = MaxPerDay
  /\ steps # <<>> /\ <<junction, legacy>> = FullLinks
  /\ ledger = <<>>
  /\ \A r \in Recipients :
       rcp[r].nextProcessAt = NULL /\ rcp[r].assignedAccountId = "a1"

SpecOverlap == InitOverlap /\ [][NextOverlap]_vars

\* ------------------------------------------------- persistence faults
\* lines 198-322: an awaited persistence call inside the try block rejects
\* (the COMPLETED update of line 210, or one of the calls of lines 265-317)
\* before writing, and control passes to the catch block
ThrowInTry(i) ==
  /\ \/ inv[i].pc \in {"s1", "s2", "s3", "s4", "f1", "f2"}
     \/ inv[i].pc = "recipient" /\ CurrentStepOf(i, CurRecipient(i)) = <<>>
  /\ inv' = [inv EXCEPT ![i].pc = "catch", ![i].error = PersistenceError]
  /\ faults < MaxFaults
  /\ faults' = faults + 1
  /\ UNCHANGED <<campaign, config, rcp, ledger, messages, conversations, delivered, clock, overlaps, skipped>>

\* lines 322-333: the update inside the catch block rejects; nothing encloses
\* it, so the rejection leaves processCampaign
ThrowInCatch(i) ==
  /\ inv[i].pc = "catch"
  /\ inv' = Return(i, "threw in catch")
  /\ faults < MaxFaults
  /\ faults' = faults + 1
  /\ UNCHANGED <<campaign, config, rcp, ledger, messages, conversations, delivered, clock, overlaps, skipped>>

\* lines 181, 188, 338, 346: a persistence call outside the try block rejects
\* (the account lookup, the ledger read, the count or the campaign update)
ThrowOutsideTry(i) ==
  /\ inv[i].pc \in {"account", "count", "mark"}
  /\ inv' = Return(i, "threw outside try")
  /\ faults < MaxFaults
  /\ faults' = faults + 1
  /\ UNCHANGED <<campaign, config, rcp, ledger, messages, conversations, delivered, clock, overlaps, skipped>>

Fault(i) == ThrowInTry(i) \/ ThrowInCatch(i) \/ ThrowOutsideTry(i)

\* invocations one at a time, with persistence calls that may reject
NextFaults ==
  /\ \E i \in Invocations : Start(i) \/ Step(i) \/ Fault(i)
  /\ UNCHANGED <<composing, surroundings>>

SpecFaults == Init /\ [][NextFaults]_vars

\* ------------------------------------------------ time-window scheduler
MinGapMinutes == 5

\* send windows as <<sendStartTime, sendEndTime>>, each time as <<hours, minutes>>
Windows ==
  {<<<<10, 0>>, <<10, 10>>>>, <<<<23, 55>>, <<0, 5>>>>, <<<<9, 0>>, <<17, 0>>>>,
   <<<<23, 50>>, <<23, 58>>>>}

\* Math.random() * 0.6 + 0.2, in tenths
RandomFactors == {2, 7}
\* Math.floor(Math.random() * 60)
RandomSeconds == {0, 59}
\* Math.random() * 10 * 60 * 1000, in ms
Jitters == {2 * MsPerMinute, 9 * MsPerMinute}

\* the recipientAssignments handed to a call: the assigned account of each
\* contact, the contact being the position in the list
AssignmentLists ==
  UNION {[1..n -> Accounts] : n \in 1..NumAssignments}

Abs(x) == IF x < 0 THEN -x ELSE x

\* lines 455-482: generateRandomTime, for the draw factor / 10 of the random
\* factor and the draw seconds.  setHours and setMinutes count from the start
\* of the date's day, so that hours past 23 land on the following day
generateRandomTime(startTime, endTime, date, factor, seconds) ==
  LET startMinutes == startTime[1] * 60 + startTime[2]
      endMinutes == endTime[1] * 60 + endTime[2]
      rangeMinutes == IF endMinutes - startMinutes < 0
                      THEN endMinutes - startMinutes + 24 * 60
                      ELSE endMinutes - startMinutes
      randomMinutes == (startMinutes * 10 + rangeMinutes * factor) \div 10
  IN UtcDate(date) * MsPerDay
       + (randomMinutes \div 60) * 60 * MsPerMinute
       + (randomMinutes % 60) * MsPerMinute
       + seconds * 1000 + (date % 1000)

\* lines 487-508: ensureMinimumGap, jitter[k] being the random variation drawn
\* if the k-th of the times still to compare is too close
RECURSIVE ensureMinimumGap(_, _, _, _)
ensureMinimumGap(time, existingTimes, minGapMinutes, jitter) ==
  IF existingTimes = <<>> THEN time
  ELSE LET minGapMs == minGapMinutes * 60 * 1000
           diff == Abs(time - Head(existingTimes))
           adjustedTime == IF diff < minGapMs
                           THEN Head(existingTimes) + minGapMs + Head(jitter)
                           ELSE time
       IN ensureMinimumGap(adjustedTime, Tail(existingTimes), minGapMinutes, Tail(jitter))

\* the date choice that looks at the ledger count alone
scheduledDateCountOnly(today, dailyCount, i, messagesPerDay) ==
  IF dailyCount >= messagesPerDay THEN today + MsPerDay ELSE today

\* lines 419-428: scheduledDate, today or (setDate(getDate() + 1)) the next day
scheduledDate(today, dailyCount, i, messagesPerDay) ==
  IF dailyCount + i >= messagesPerDay THEN today + MsPerDay ELSE today

\* the accounts of the assignments in the order of their first appearance,
\* which is the order of Object.entries(recipientsByAccount)
RECURSIVE AccountsInOrder(_)
AccountsInOrder(assignments) ==
  IF assignments = <<>> THEN <<>>
  ELSE LET front == AccountsInOrder(SubSeq(assignments, 1, Len(assignments) - 1))
           last == assignments[Len(assignments)]
       IN IF \E k \in 1..Len(front) : front[k] = last THEN front ELSE Append(front, last)

\* lines 389-411: today = new Date() and the grouping by account
BeginSchedule(t) ==
  /\ sch.pc = "idle"
  /\ t >= clock
  /\ clock' = t
  /\ sch' = [sch EXCEPT !.pc = "account", !.today = t,
                        !.accountsLeft = AccountsInOrder(sch.recipientAssignments)]
  /\ UNCHANGED <<campaign, config, rcp, ledger, messages, conversations, delivered,
                 overlaps, skipped, faults, inv, rendering, surroundings>>

\* lines 413-416: the account's recipients, its daily count, no times yet
ScheduleAccount ==
  /\ sch.pc = "account"
  /\ LET accountId == Head(sch.accountsLeft)
     IN sch' = [sch EXCEPT !.pc = "recipient",
                           !.recipients = SelectSeq([k \in 1..Len(sch.recipientAssignments) |-> k],
                                                    LAMBDA k : sch.recipientAssignments[k] = accountId),
                           !.dailyCount = getAccountDailyCount(accountId, sch.today),
                           !.scheduledTimes = <<>>,
                           !.i = 0]
  /\ UNCHANGED <<campaign, config, rcp, ledger, messages, conversations, delivered,
                 clock, overlaps, skipped, faults, inv, rendering, surroundings>>

\* lines 418-445: one iteration of the recipient loop, then the loop heads
ScheduleRecipient(factor, seconds, jitter) ==
  /\ sch.pc = "recipient"
  /\ LET recipient == sch.recipients[sch.i + 1]
         date == scheduledDate(sch.today, sch.dailyCount, sch.i, sch.config.messagesPerDay)
         randomTime == generateRandomTime(sch.config.sendStartTime, sch.config.sendEndTime,
                                          date, factor, seconds)
         scheduledTime == ensureMinimumGap(randomTime, sch.scheduledTimes, MinGapMinutes, jitter)
         more == sch.i + 1 < Len(sch.recipients)
     IN sch' = [sch EXCEPT
                  !.scheduledTimes = Append(@, scheduledTime),
                  !.recipientsWithTimes =
                     Append(@, [contactId |-> recipient,
                                assignedAccountId |-> sch.recipientAssignments[recipient],
                                nextProcessAt |-> scheduledTime]),
                  !.i = @ + 1,
                  !.accountsLeft = IF more THEN @ ELSE Tail(@),
                  !.pc = IF more THEN "recipient"
                         ELSE IF Tail(sch.accountsLeft) = <<>> THEN "returned" ELSE "account"]
  /\ UNCHANGED <<campaign, config, rcp, ledger, messages, conversations, delivered,
                 clock, overlaps, skipped, faults, inv, rendering, surroundings>>

NextSchedule ==
  \/ \E t \in Times : BeginSchedule(t)
  \/ ScheduleAccount
  \/ \E factor \in RandomFactors, seconds \in RandomSeconds,
        jitter \in [1..Len(sch.scheduledTimes) -> Jitters] :
       ScheduleRecipient(factor, seconds, jitter)

\* a campaign being composed: no recipient rows yet, the ledger holding what
\* the first account has sent today, and a call of assignRecipientsAndSchedule
\* with every window, quota and list of assignments
InitSchedule ==
  /\ \E m \in 0..MaxPerDay, n \in 0..MaxStartCount, w \in Windows, l \in AssignmentLists :
       /\ campaign = [status |-> "DRAFT", messagesPerDay |-> m, sentCount |-> 0,
                      failedCount |-> 0, completedAt |-> NULL]
       /\ ledger = IF n = 0 THEN <<>> ELSE [k \in {<<"a1", 0>>} |-> n]
       /\ messages = PriorMessages("a1", n)
       /\ conversations = IF n = 0 THEN {} ELSE {<<"a1", 0>>}
       /\ sch = [pc |-> "idle", today |-> 0,
                 config |-> [sendStartTime |-> w[1], sendEndTime |-> w[2], messagesPerDay |-> m],
                 recipientAssignments |-> l, accountsLeft |-> <<>>, recipients |-> <<>>,
                 dailyCount |-> 0, scheduledTimes |-> <<>>, i |-> 0,
                 recipientsWithTimes |-> <<>>]
  /\ steps = <<[stepOrder |-> 1, delayMinutes |-> 0]>>
  /\ junction = Accounts /\ legacy = "none"
  /\ rcp = <<>>
  /\ delivered = <<>> /\ overlaps = 0 /\ skipped = {} /\ faults = 0
  /\ inv = [i \in Invocations |-> IdleInv]
  /\ clock = 0
  /\ rendering = NoRendering
  /\ InitSurroundings

SpecSchedule == InitSchedule /\ [][NextSchedule]_vars

\* -------------------------------------------------- template rendering
\* a template is the list of its pieces, a placeholder being one piece; a
\* contact field is <<>> when null and <<text>> otherwise
Templates ==
  {<<"Hi ", "{{name}}", ", @", "{{username}}">>,
   <<"Hello ", "{{name}}">>,
   <<"{{name}}", " ", "{{name}}">>,
   <<"@", "{{username}}">>,
   <<"{{username}}", "{{name}}">>,
   <<"Hi">>}
ContactNames == {<<>>, <<"">>, <<"Sam">>, <<"{{username}}">>}
ContactUsernames == {<<>>, <<"">>, <<"abc">>}

\* a || b for a nullable string a: b when a is null or empty
OrElse(a, b) == IF a = <<>> \/ a = <<"">> THEN b ELSE a[1]

\* message.replace(/token/g, value)
ReplaceAll(message, token, value) ==
  [k \in 1..Len(message) |-> IF message[k] = token THEN value ELSE message[k]]

\* the text of a list of pieces
RECURSIVE Text(_)
Text(message) == IF message = <<>> THEN "" ELSE Head(message) \o Text(Tail(message))

\* the rendering that knows the contact's name only
personalizeMessageNameOnly(template, contact) ==
  LET name == OrElse(contact.name, "there")
      named == ReplaceAll(template, "{{name}}", name)
  IN Text(ReplaceAll(named, "{{username}}", OrElse(contact.igUsername, "")))

\* lines 556-567: personalizeMessage
personalizeMessage(template, contact) ==
  LET name == OrElse(contact.name, OrElse(contact.igUsername, "there"))
      named == ReplaceAll(template, "{{name}}", name)
  IN Text(ReplaceAll(named, "{{username}}", OrElse(contact.igUsername, "")))

\* lines 243-247: the call of personalizeMessage returns the message
Personalize ==
  /\ rendering.pc = "called"
  /\ rendering' = [rendering EXCEPT
                     !.pc = "returned",
                     !.message = personalizeMessage(rendering.template, rendering.contact)]
  /\ UNCHANGED <<campaign, config, rcp, ledger, messages, conversations, delivered,
                 clock, overlaps, skipped, faults, inv, sch, surroundings>>

\* a call of personalizeMessage with every template and contact
InitRender ==
  /\ \E template \in Templates, name \in ContactNames, igUsername \in ContactUsernames :
       rendering = [pc |-> "called", template |-> template,
                    contact |-> [name |-> name, igUsername |-> igUsername],
                    message |-> ""]
  /\ campaign = [status |-> "RUNNING", messagesPerDay |-> MaxPerDay, sentCount |-> 0,
                 failedCount |-> 0, completedAt |-> NULL]
  /\ steps = <<[stepOrder |-> 1, delayMinutes |-> 0]>>
  /\ junction = Accounts /\ legacy = "none"
  /\ rcp = <<>> /\ ledger = <<>> /\ messages = <<>> /\ conversations = {}
  /\ delivered = <<>> /\ overlaps = 0 /\ skipped = {} /\ faults = 0
  /\ inv = [i \in Invocations |-> IdleInv]
  /\ clock = 0
  /\ sch = NoSchedule
  /\ InitSurroundings

SpecRender == InitRender /\ [][Personalize]_vars

\* ------------------------------------------------------------ progress
\* the times of the progress specification
LiveTimes == {k * TickMs : k \in 0..LiveTicks}

\* the trigger starts processCampaign again within the same tick
StartAgain(i) ==
  i = "i1" /\ NoneRunning /\ Load(i, clock) /\ UNCHANGED overlaps

\* the trigger starts processCampaign after time has moved on by one tick
StartLater(i) ==
  /\ i = "i1" /\ NoneRunning
  /\ clock + TickMs \in LiveTimes
  /\ Load(i, clock + TickMs)
  /\ UNCHANGED overlaps

\* the steps of an invocation whose accounts have their sessions and whose
\* transport answers every send, with a success or with a failure
StepAnswered(i) ==
  \/ AccountStep(i, TRUE)
  \/ CompleteRecipient(i)
  \/ SendOk(i)
  \/ \E e \in TransportErrors : SendFail(i, e)
  \/ UpdateRecipientSent(i)
  \/ CreateMessage(i)
  \/ IncrementSentCount(i)
  \/ IncrementLedger(i)
  \/ UpdateRecipientFailed(i)
  \/ IncrementFailedCount(i)
  \/ CountRemaining(i)
  \/ MarkCompleted(i)

NextLive ==
  /\ \E i \in Invocations : StartAgain(i) \/ StartLater(i) \/ StepAnswered(i)
  /\ UNCHANGED <<composing, surroundings>>

\* a RUNNING campaign with both accounts linked, at the first tick
InitLive ==
  /\ InitTables
  /\ clock = 0
  /\ campaign.status = "RUNNING"
  /\ steps # <<>> /\ <<junction, legacy>> = FullLinks

\* processCampaign keeps being invoked and every invocation runs on (weak
\* fairness of the whole), and time keeps moving on between invocations
\* (strong fairness of the later start, which is not enabled while an
\* invocation runs)
SpecLive ==
  /\ InitLive /\ [][NextLive]_vars
  /\ WF_vars(NextLive)
  /\ SF_vars(\E i \in Invocations : StartLater(i) /\ UNCHANGED <<composing, surroundings>>)

\* ------------------------------------------------- account connection
\* InstagramService.disconnectAccount: the update writes isActive: false and
\* nothing else; the accessToken stays in the row
disconnectAccount(a) ==
  /\ accountRows' = [accountRows EXCEPT
                       ![a].isActive = FALSE,
                       ![a].inFlight = {i \in Invocations : inv[i].pc # "idle"}]
  /\ UNCHANGED <<campaign, config, rcp, ledger, messages, conversations, delivered,
                 clock, overlaps, skipped, faults, inv, composing, legacyRun, webhook>>

\* saveAccountWithCookies: the upsert stores the encrypted cookies as
\* accessToken and writes isActive: true
saveAccountWithCookies(a) ==
  /\ accountRows' = [accountRows EXCEPT
                       ![a] = [isActive |-> TRUE, accessToken |-> TRUE, inFlight |-> {}]]
  /\ UNCHANGED <<campaign, config, rcp, ledger, messages, conversations, delivered,
                 clock, overlaps, skipped, faults, inv, composing, legacyRun, webhook>>

\* lines 601-618: what getCookiesForAccount can return, TRUE for cookies and
\* FALSE for null: null without an accessToken, and with one the cookies, or
\* null when decryptCookies throws.  isActive is not read.
getCookiesForAccount(a) ==
  IF ~accountRows[a].accessToken THEN {FALSE} ELSE BOOLEAN

\* the trigger starts processCampaign; an invocation that starts is no longer
\* one that was running when an account was disconnected
StartConnected(i) ==
  /\ Start(i)
  /\ accountRows' = [a \in Accounts |-> [accountRows[a] EXCEPT !.inFlight = @ \ {i}]]
  /\ UNCHANGED <<composing, legacyRun, webhook>>

\* a step of the run loop, the account lookup reading the account's row
StepConnected(i) ==
  /\ Step(i)
  /\ inv[i].pc = "account" =>
       \E cookies \in getCookiesForAccount(CurAccount(i)) : AccountStep(i, cookies)
  /\ UNCHANGED <<composing, surroundings>>

\* invocations one at a time, while accounts are disconnected and reconnected
NextConnection ==
  \/ \E i \in Invocations : StartConnected(i)
  \/ \E i \in Invocations : StepConnected(i)
  \/ \E a \in Accounts : disconnectAccount(a)
  \/ \E a \in Accounts : saveAccountWithCookies(a)

\* a RUNNING campaign that passes the guards, with both accounts linked
InitConnection ==
  /\ Init
  /\ campaign.status = "RUNNING"
  /\ steps # <<>> /\ <<junction, legacy>> = FullLinks

SpecConnection == InitConnection /\ [][NextConnection]_vars

\* ------------------------------------------- legacy single-account service
\* what one sendDM call of an invocation does: it delivers, it throws, or it
\* returns a failure with the transport's error text
Outcomes == {"ok", "throw"} \cup TransportErrors

\* one iteration of the legacy recipient loop, the catch block counting the
\* failure in failedCount
legacyRecipientCountingThrows(T, row, r, now, outcome) ==
  IF row.nextProcessAt # NULL /\ row.nextProcessAt > now THEN T
  ELSE
    LET currentStep == FindStep(row.currentStepOrder + 1)
        nextStep == FindStep(row.currentStepOrder + 2)
        delayMinutes == IF nextStep = <<>> THEN 0 ELSE nextStep[1].delayMinutes
        nextProcessAt == now + delayMinutes * 60 * 1000
    IN IF currentStep = <<>>
       THEN [T EXCEPT !.rcp[r].status = "COMPLETED", !.rcp[r].lastProcessedAt = now]
       ELSE IF outcome = "throw"
       THEN [T EXCEPT !.rcp[r].status = "FAILED",
                      !.rcp[r].errorMessage = ExceptionMessage,
                      !.campaign.failedCount = @ + 1]
       ELSE IF outcome = "ok"
       THEN [T EXCEPT !.rcp[r].status = "IN_PROGRESS",
                      !.rcp[r].currentStepOrder = currentStep[1].stepOrder,
                      !.rcp[r].lastProcessedAt = now,
                      !.rcp[r].nextProcessAt = IF nextStep # <<>> THEN nextProcessAt ELSE NULL,
                      !.conversations = @ \cup {<<legacy, r>>},
                      !.messages = Append(@, [account |-> legacy, contact |-> r,
                                              direction |-> "OUTBOUND", status |-> "SENT",
                                              sentAt |-> now,
                                              stepOrder |-> currentStep[1].stepOrder]),
                      !.campaign.sentCount = @ + 1]
       ELSE [T EXCEPT !.rcp[r].status = "FAILED",
                      !.rcp[r].errorMessage = IF outcome = "" THEN "Unknown error" ELSE outcome,
                      !.campaign.failedCount = @ + 1]

\* part_002 lines 61-164: one iteration of the legacy recipient loop on the
\* tables T, for the recipient r as loaded (row) and the outcome of its send:
\* the due check, the COMPLETED update when no step is left, and after sendDM
\* the success branch (recipient update, conversation and message, sentCount),
\* the failure branch (FAILED, failedCount) or the catch block (FAILED)
legacyRecipient(T, row, r, now, outcome) ==
  IF row.nextProcessAt # NULL /\ row.nextProcessAt > now THEN T
  ELSE
    LET currentStep == FindStep(row.currentStepOrder + 1)
        nextStep == FindStep(row.currentStepOrder + 2)
        delayMinutes == IF nextStep = <<>> THEN 0 ELSE nextStep[1].delayMinutes
        nextProcessAt == now + delayMinutes * 60 * 1000
    IN IF currentStep = <<>>
       THEN [T EXCEPT !.rcp[r].status = "COMPLETED", !.rcp[r].lastProcessedAt = now]
       ELSE IF outcome = "throw"
       THEN [T EXCEPT !.rcp[r].status = "FAILED",
                      !.rcp[r].errorMessage = ExceptionMessage]
       ELSE IF outcome = "ok"
       THEN [T EXCEPT !.rcp[r].status = "IN_PROGRESS",
                      !.rcp[r].currentStepOrder = currentStep[1].stepOrder,
                      !.rcp[r].lastProcessedAt = now,
                      !.rcp[r].nextProcessAt = IF nextStep # <<>> THEN nextProcessAt ELSE NULL,
                      !.conversations = @ \cup {<<legacy, r>>},
                      !.messages = Append(@, [account |-> legacy, contact |-> r,
                                              direction |-> "OUTBOUND", status |-> "SENT",
                                              sentAt |-> now,
                                              stepOrder |-> currentStep[1].stepOrder]),
                      !.campaign.sentCount = @ + 1]
       ELSE [T EXCEPT !.rcp[r].status = "FAILED",
                      !.rcp[r].errorMessage = IF outcome = "" THEN "Unknown error" ELSE outcome,
                      !.campaign.failedCount = @ + 1]

\* part_002 line 60: for (const recipient of campaign.recipients), over the
\* recipients as they were loaded
RECURSIVE legacyLoop(_, _, _, _, _)
legacyLoop(T, recipients, left, now, oracle) ==
  IF left = <<>> THEN T
  ELSE legacyLoop(legacyRecipient(T, recipients[Head(left)], Head(left), now, oracle[Head(left)]),
                  recipients, Tail(left), now, oracle)

\* part_002 lines 17-192: the legacy processCampaign as one call on the tables
\* T.  It returns when the campaign is not RUNNING or has no steps, throws on
\* campaign.instagramAccount.id when the campaign has no legacy account, and
\* returns when the account has no cookies; then the loop, the count of the
\* open recipients and the COMPLETED update.
legacyProcessCampaign(T, now, oracle, cookies) ==
  IF T.campaign.status # "RUNNING" THEN T
  ELSE IF Len(steps) = 0 THEN T
  ELSE IF legacy = "none" THEN T
  ELSE IF ~cookies THEN T
  ELSE
    LET recipients == [r \in {x \in Recipients : T.rcp[x].status \in {"PENDING", "IN_PROGRESS"}} |->
                         T.rcp[r]]
        after == legacyLoop(T, recipients, SetToSeq(DOMAIN recipients), now, oracle)
        remainingRecipients ==
          Cardinality({r \in Recipients : after.rcp[r].status \in {"PENDING", "IN_PROGRESS"}})
    IN IF remainingRecipients = 0
       THEN [after EXCEPT !.campaign.status = "COMPLETED", !.campaign.completedAt = now]
       ELSE after

\* both services are invoked at the same time on their own copy of the
\* tables, with the same outcome for the send to each recipient
StartBoth(i) ==
  \E t \in Times, oracle \in [Recipients -> Outcomes] :
    /\ Start(i)
    /\ clock' = t
    /\ legacyRun' = [legacyProcessCampaign(legacyRun, t, oracle, TRUE) EXCEPT !.oracle = oracle]
    /\ UNCHANGED <<composing, accountRows, webhook>>

\* a step of the multi-account invocation, with the session available and
\* sendDM doing what it did for the legacy service
StepBoth(i) ==
  /\ \/ AccountStep(i, TRUE)
     \/ CompleteRecipient(i)
     \/ SendOk(i) /\ legacyRun.oracle[CurRecipient(i)] = "ok"
     \/ \E e \in TransportErrors : SendFail(i, e) /\ legacyRun.oracle[CurRecipient(i)] = e
     \/ SendThrow(i) /\ legacyRun.oracle[CurRecipient(i)] = "throw"
     \/ UpdateRecipientSent(i)
     \/ CreateMessage(i)
     \/ IncrementSentCount(i)
     \/ IncrementLedger(i)
     \/ UpdateRecipientFailed(i)
     \/ IncrementFailedCount(i)
     \/ CatchRecipient(i)
     \/ CountRemaining(i)
     \/ MarkCompleted(i)
  /\ UNCHANGED <<composing, surroundings>>

NextLegacy == \E i \in Invocations : StartBoth(i) \/ StepBoth(i)

\* a campaign with the legacy account reference only, every recipient
\* assigned to that account, an empty ledger, and the same tables for the
\* legacy service
InitLegacy ==
  /\ \E st \in {"RUNNING", "DRAFT"}, m \in 1..MaxPerDay,
        sched \in [Recipients -> {NULL, TickMs}] :
       /\ campaign = [status |-> st, messagesPerDay |-> m, sentCount |-> 0,
                      failedCount |-> 0, completedAt |-> NULL]
       /\ rcp = [r \in Recipients |->
                   [status |-> "PENDING", currentStepOrder |-> 0,
                    assignedAccountId |-> "a1", nextProcessAt |-> sched[r],
                    lastProcessedAt |-> NULL, errorMessage |-> ""]]
  /\ steps \in StepLists
  /\ junction = {} /\ legacy = "a1"
  /\ ledger = <<>> /\ messages = <<>> /\ conversations = {}
  /\ delivered = <<>> /\ overlaps = 0 /\ skipped = {} /\ faults = 0
  /\ inv = [i \in Invocations |-> IdleInv]
  /\ clock = 0
  /\ sch = NoSchedule /\ rendering = NoRendering
  /\ accountRows = ConnectedRows /\ webhook = NoWebhook
  /\ legacyRun = [pc |-> "idle", campaign |-> campaign, rcp |-> rcp,
                  messages |-> messages, conversations |-> conversations,
                  oracle |-> [r \in Recipients |-> "ok"]]

SpecLegacy == InitLegacy /\ [][NextLegacy]_vars

\* ----------------------------------------------------- inbound webhook
\* the webhook calls that may be in progress at once
Handlers == {"h1", "h2"}

\* messaging events: the sender (event.sender.id) and the message id
\* (event.message.mid); all are for the account "a1"
Events ==
  {[sender |-> "u1", mid |-> "m1"], [sender |-> "u1", mid |-> "m2"],
   [sender |-> "u2", mid |-> "m3"]}
Mids == {e.mid : e \in Events}

IdleHandler == [pc |-> "idle", sender |-> "", mid |-> "", contact |-> 0, conversation |-> 0]
IdleSend == [pc |-> "idle", contact |-> 0]

\* the ids (positions) of the rows with a given key
ContactIds(igUserId) ==
  {k \in 1..Len(webhook.contacts) : webhook.contacts[k].igUserId = igUserId}
ConversationIds(a, c) ==
  {k \in 1..Len(webhook.conversations) :
     /\ webhook.conversations[k].instagramAccountId = a
     /\ webhook.conversations[k].contactId = c}
MessageIds(mid) ==
  {k \in 1..Len(webhook.messages) : webhook.messages[k].igMessageId = mid}
FirstId(S) == CHOOSE k \in S : \A j \in S : k <= j

\* a create is rejected by a unique key and the call ends with the exception
Rejected(h) ==
  [webhook EXCEPT !.handlers[h] = IdleHandler,
                  !.rejected = @ \cup {webhook.handlers[h].pc}]

\* handleIncomingMessage returns
Returned(h) ==
  [webhook EXCEPT !.handlers[h] = IdleHandler,
                  !.returned = @ \cup {webhook.handlers[h].mid}]

\* part_000 lines 402-448: a webhook delivery of a messaging event with a
\* message reaches handleIncomingMessage
receiveWebhook(h, e) ==
  /\ webhook.handlers[h].pc = "idle"
  /\ webhook.calls < MaxCalls
  /\ webhook' = [webhook EXCEPT
                   !.handlers[h] = [IdleHandler EXCEPT !.pc = "findContact",
                                                       !.sender = e.sender, !.mid = e.mid],
                   !.received[e.mid] = @ + 1,
                   !.calls = @ + 1]

\* lines 467-476: contact.findFirst by igUserId
FindContact(h) ==
  /\ webhook.handlers[h].pc = "findContact"
  /\ LET found == ContactIds(webhook.handlers[h].sender)
     IN webhook' =
          IF found # {}
          THEN [webhook EXCEPT !.handlers[h].contact = FirstId(found),
                               !.handlers[h].pc = "findConversation"]
          ELSE [webhook EXCEPT !.handlers[h].pc = "createContact"]

\* lines 478-493: contact.create; (igUserId, workspaceId) is a unique key of
\* contacts
CreateContact(h) ==
  /\ webhook.handlers[h].pc = "createContact"
  /\ webhook' =
       IF ContactIds(webhook.handlers[h].sender) # {} THEN Rejected(h)
       ELSE [webhook EXCEPT
               !.contacts = Append(@, [igUserId |-> webhook.handlers[h].sender]),
               !.handlers[h].contact = Len(webhook.contacts) + 1,
               !.handlers[h].pc = "findConversation"]

\* lines 496-503: conversation.findUnique by (instagramAccountId, contactId)
FindConversation(h) ==
  /\ webhook.handlers[h].pc = "findConversation"
  /\ LET found == ConversationIds("a1", webhook.handlers[h].contact)
     IN webhook' =
          IF found # {}
          THEN [webhook EXCEPT !.handlers[h].conversation = FirstId(found),
                               !.handlers[h].pc = "findMessage"]
          ELSE [webhook EXCEPT !.handlers[h].pc = "createConversation"]

\* lines 505-513: conversation.create; (instagramAccountId, contactId) is a
\* unique key of conversations
CreateConversation(h) ==
  /\ webhook.handlers[h].pc = "createConversation"
  /\ webhook' =
       IF ConversationIds("a1", webhook.handlers[h].contact) # {} THEN Rejected(h)
       ELSE [webhook EXCEPT
               !.conversations = Append(@, [instagramAccountId |-> "a1",
                                            contactId |-> webhook.handlers[h].contact,
                                            unreadCount |-> 0]),
               !.handlers[h].conversation = Len(webhook.conversations) + 1,
               !.handlers[h].pc = "findMessage"]

\* lines 516-523: message.findUnique by igMessageId; a duplicate is skipped
FindExistingMessage(h) ==
  /\ webhook.handlers[h].pc = "findMessage"
  /\ webhook' =
       IF MessageIds(webhook.handlers[h].mid) # {} THEN Returned(h)
       ELSE [webhook EXCEPT !.handlers[h].pc = "createMessage"]

\* message.create with no unique key on igMessageId
CreateInboundMessageUnconstrained(h) ==
  /\ webhook.handlers[h].pc = "createMessage"
  /\ webhook' =
       [webhook EXCEPT
          !.messages = Append(@, [conversationId |-> webhook.handlers[h].conversation,
                                  igMessageId |-> webhook.handlers[h].mid,
                                  direction |-> "INBOUND", status |-> "DELIVERED"]),
          !.handlers[h].pc = "updateConversation"]

\* lines 538-549: message.create; igMessageId is a unique key of messages
CreateInboundMessage(h) ==
  /\ webhook.handlers[h].pc = "createMessage"
  /\ webhook' =
       IF MessageIds(webhook.handlers[h].mid) # {} THEN Rejected(h)
       ELSE [webhook EXCEPT
               !.messages = Append(@, [conversationId |-> webhook.handlers[h].conversation,
                                       igMessageId |-> webhook.handlers[h].mid,
                                       direction |-> "INBOUND", status |-> "DELIVERED"]),
               !.handlers[h].pc = "updateConversation"]

\* lines 552-561: conversation.update with unreadCount: { increment: 1 }, and
\* the handler returns
UpdateConversation(h) ==
  /\ webhook.handlers[h].pc = "updateConversation"
  /\ webhook' =
       [Returned(h) EXCEPT
          !.conversations[webhook.handlers[h].conversation].unreadCount = @ + 1,
          !.increments[webhook.handlers[h].mid] = @ + 1]

\* route.ts lines 275-279: the success branch of processCampaign calls
\* getOrCreateConversation for the account and a recipient's contact
CallGetOrCreateConversation(c) ==
  /\ webhook.sendSide.pc = "idle"
  /\ webhook.calls < MaxCalls
  /\ c \in 1..Len(webhook.contacts)
  /\ webhook' = [webhook EXCEPT !.sendSide = [pc |-> "find", contact |-> c],
                                !.calls = @ + 1]

\* route.ts lines 576-583: conversation.findUnique of getOrCreateConversation
GetConversation ==
  /\ webhook.sendSide.pc = "find"
  /\ webhook' =
       IF ConversationIds("a1", webhook.sendSide.contact) # {}
       THEN [webhook EXCEPT !.sendSide = IdleSend]
       ELSE [webhook EXCEPT !.sendSide.pc = "create"]

\* route.ts lines 585-593: conversation.create of getOrCreateConversation
GetOrCreateConversationCreate ==
  /\ webhook.sendSide.pc = "create"
  /\ webhook' =
       IF ConversationIds("a1", webhook.sendSide.contact) # {}
       THEN [webhook EXCEPT !.sendSide = IdleSend, !.rejected = @ \cup {"sendCreate"}]
       ELSE [webhook EXCEPT
               !.conversations = Append(@, [instagramAccountId |-> "a1",
                                            contactId |-> webhook.sendSide.contact,
                                            unreadCount |-> 0]),
               !.sendSide = IdleSend]

\* webhook deliveries that may overlap each other and a campaign send
NextWebhook ==
  /\ \/ \E h \in Handlers, e \in Events : receiveWebhook(h, e)
     \/ \E h \in Handlers :
          \/ FindContact(h)
          \/ CreateContact(h)
          \/ FindConversation(h)
          \/ CreateConversation(h)
          \/ FindExistingMessage(h)
          \/ CreateInboundMessage(h)
          \/ UpdateConversation(h)
     \/ \E c \in 1..Len(webhook.contacts) : CallGetOrCreateConversation(c)
     \/ GetConversation
     \/ GetOrCreateConversationCreate
  /\ UNCHANGED <<campaign, config, rcp, ledger, messages, conversations, delivered,
                 clock, overlaps, skipped, faults, inv, composing, accountRows, legacyRun>>

\* no inbound message yet; the sender "u1" may already be a contact
InitWebhook ==
  /\ \E contacts \in {<<>>, <<[igUserId |-> "u1"]>>} :
       webhook = [contacts |-> contacts, conversations |-> <<>>, messages |-> <<>>,
                  handlers |-> [h \in Handlers |-> IdleHandler], sendSide |-> IdleSend,
                  returned |-> {}, rejected |-> {},
                  received |-> [m \in Mids |-> 0],
                  increments |-> [m \in Mids |-> 0], calls |-> 0]
  /\ campaign = [status |-> "RUNNING", messagesPerDay |-> MaxPerDay, sentCount |-> 0,
                 failedCount |-> 0, completedAt |-> NULL]
  /\ steps = <<[stepOrder |-> 1, delayMinutes |-> 0]>>
  /\ junction = Accounts /\ legacy = "none"
  /\ rcp = <<>> /\ ledger = <<>> /\ messages = <<>> /\ conversations = {}
  /\ delivered = <<>> /\ overlaps = 0 /\ skipped = {} /\ faults = 0
  /\ inv = [i \in Invocations |-> IdleInv]
  /\ clock = 0
  /\ sch = NoSchedule /\ rendering = NoRendering
  /\ accountRows = ConnectedRows /\ legacyRun = NoLegacyRun

SpecWebhook == InitWebhook /\ [][NextWebhook]_vars

\* ------------------------------------------------------------ claims
\* C1: when two invocations for the same RUNNING campaign overlap, no
\* campaign step is delivered more than once to the same recipient.
NoDuplicateSend ==
  \A j, k \in 1..Len(delivered) :
    j # k => ~(/\ delivered[j].recipient = delivered[k].recipient
               /\ delivered[j].stepOrder = delivered[k].stepOrder)

\* C2: with invocations one at a time, for every account and UTC date on
\* which the campaign delivered through the account, the sends of that
\* account on that date (the starting count and the campaign's deliveries)
\* do not exceed the campaign's messagesPerDay.
QuotaRespected ==
  \A a \in Accounts, d \in {UtcDate(t) : t \in Times} :
    LET sent == {k \in 1..Len(delivered) :
                   delivered[k].account = a /\ UtcDate(delivered[k].at) = d}
        prior == {k \in 1..Len(messages) :
                    /\ messages[k].stepOrder = 0 /\ messages[k].account = a
                    /\ UtcDate(messages[k].sentAt) = d}
    IN sent # {} => Cardinality(sent) + Cardinality(prior) <= campaign.messagesPerDay

\* C3: no invocation is about to call the transport for a recipient whose
\* nextProcessAt is set and later than the invocation's now.
NotDueNeverSent ==
  \A i \in Invocations :
    AboutToSend(i) =>
      ~(/\ rcp[CurRecipient(i)].nextProcessAt # NULL
        /\ rcp[CurRecipient(i)].nextProcessAt > inv[i].now)

\* an invocation is about to send for one recipient of an account while
\* another open recipient of the same account is scheduled later than now
NotDueSkipped ==
  \E i \in Invocations :
    /\ AboutToSend(i)
    /\ \E r \in DOMAIN inv[i].snap :
         /\ inv[i].snap[r].assignedAccountId = CurAccount(i)
         /\ rcp[r].nextProcessAt # NULL
         /\ rcp[r].nextProcessAt > inv[i].now

\* C4: with invocations one at a time, no step of the system lowers a
\* recipient's currentStepOrder.
StepOrderNeverDecreases ==
  [][\A r \in Recipients :
       rcp'[r].currentStepOrder >= rcp[r].currentStepOrder]_vars

\* a recipient has been taken through both steps of a two-step campaign
SecondStepReached ==
  \E r \in Recipients : rcp[r].currentStepOrder = 2

\* C5: with invocations one at a time, a FAILED recipient stays FAILED and
\* no invocation comes to process it (to send to it or to complete it).
FailedIsAbsorbing ==
  [][\A r \in Recipients :
       rcp[r].status = "FAILED" =>
         /\ rcp'[r].status = "FAILED"
         /\ \A i \in Invocations :
              ~(/\ inv'[i].pc = "recipient"
                /\ Head(inv'[i].recipientsLeft) = r)]_vars

\* a later invocation works through the account of a recipient that failed
\* in an earlier invocation
FailedLeftAlone ==
  \E i \in Invocations, r \in Recipients :
    /\ rcp[r].status = "FAILED"
    /\ r \notin DOMAIN inv[i].snap
    /\ inv[i].pc = "recipient"
    /\ CurAccount(i) = rcp[r].assignedAccountId

LedgerMatchesMessages ==
  NoneRunning =>
    \A a \in Accounts, d \in {UtcDate(t) : t \in Times} :
      LET rows == {k \in 1..Len(messages) :
                     /\ messages[k].account = a
                     /\ messages[k].direction = "OUTBOUND"
                     /\ messages[k].status = "SENT"
                     /\ messages[k].sentAt \div MsPerDay = d}
          count == IF <<a, d>> \in DOMAIN ledger THEN ledger[<<a, d>>] ELSE 0
      IN count = Cardinality(rows)

\* invocations have returned after delivering, leaving a ledger row whose
\* count is 2 or more
LedgerCounted ==
  /\ NoneRunning
  /\ delivered # <<>>
  /\ \E key \in DOMAIN ledger : ledger[key] >= 2

\* the single-step scenario, seen at the end of invocation i: a campaign
\* with one step, loaded RUNNING with every recipient PENDING, due and
\* assigned to one account, whose recipient loop (and no other) was entered,
\* and a delivery to every recipient
SingleStepScenario(i) ==
  /\ inv[i].pc \in {"count", "mark"}
  /\ Len(steps) = 1
  /\ DOMAIN inv[i].snap = Recipients
  /\ \A r \in Recipients :
       /\ inv[i].snap[r].status = "PENDING"
       /\ inv[i].snap[r].assignedAccountId = inv[i].snap[1].assignedAccountId
       /\ ~(inv[i].snap[r].nextProcessAt # NULL /\ inv[i].snap[r].nextProcessAt > inv[i].now)
       /\ \E k \in 1..Len(delivered) :
            delivered[k].recipient = r /\ delivered[k].at = inv[i].now
  /\ inv[i].entered = {inv[i].snap[1].assignedAccountId}

\* the ledger count of the scenario's account on the invocation's date
ScenarioCount(i, l) ==
  LET key == <<inv[i].snap[1].assignedAccountId, inv[i].now \div MsPerDay>>
  IN IF key \in DOMAIN l THEN l[key] ELSE 0

\* C8 as stated: in the single-step scenario the invocation returns with
\* every recipient COMPLETED, sentCount and the account's daily count raised
\* by the number of recipients, and the campaign COMPLETED.
SingleStepRunCompletes ==
  [][\A i \in Invocations :
       (SingleStepScenario(i) /\ inv'[i].pc = "idle") =>
         /\ \A r \in Recipients : rcp'[r].status = "COMPLETED"
         /\ campaign'.sentCount = inv[i].pre.campaign.sentCount + NumRecipients
         /\ ScenarioCount(i, ledger') = ScenarioCount(i, inv[i].pre.ledger) + NumRecipients
         /\ campaign'.status = "COMPLETED"]_vars

\* C8 as amended: in the single-step scenario the invocation returns with
\* every recipient IN_PROGRESS at currentStepOrder 1 with no nextProcessAt,
\* sentCount and the account's daily count raised by the number of
\* recipients, and the campaign still RUNNING.
SingleStepRunLeavesInProgress ==
  [][\A i \in Invocations :
       (SingleStepScenario(i) /\ inv'[i].pc = "idle") =>
         /\ \A r \in Recipients :
              /\ rcp'[r].status = "IN_PROGRESS"
              /\ rcp'[r].currentStepOrder = 1
              /\ rcp'[r].nextProcessAt = NULL
         /\ campaign'.sentCount = inv[i].pre.campaign.sentCount + NumRecipients
         /\ ScenarioCount(i, ledger') = ScenarioCount(i, inv[i].pre.ledger) + NumRecipients
         /\ campaign'.status = "RUNNING"]_vars

\* an invocation of the single-step scenario has delivered to every
\* recipient and is about to return
SingleStepRunDone ==
  \E i \in Invocations : SingleStepScenario(i) /\ inv[i].pc = "count"

\* C9: in a campaign whose step 2 has delayMinutes D > 0, once the recipient
\* update of a successful step 1 sent at t is written the recipient is
\* IN_PROGRESS at currentStepOrder 1 with nextProcessAt = t + D minutes, and
\* after a delivery of step 1 at t no invocation whose now is before
\* t + D minutes is about to send to that recipient or delivers to it.
DelayBeforeSecondStep ==
  (FindStep(2) # <<>> /\ FindStep(2)[1].delayMinutes > 0) =>
    LET D == FindStep(2)[1].delayMinutes
    IN /\ \A i \in Invocations :
            (inv[i].pc \in {"s2", "s3", "s4"} /\ CurStep(i).stepOrder = 1) =>
              /\ rcp[CurRecipient(i)].status = "IN_PROGRESS"
              /\ rcp[CurRecipient(i)].currentStepOrder = 1
              /\ rcp[CurRecipient(i)].nextProcessAt = inv[i].now + D * 60 * 1000
       /\ \A k \in 1..Len(delivered) :
            delivered[k].stepOrder = 1 =>
              /\ \A i \in Invocations :
                   (AboutToSend(i) /\ CurRecipient(i) = delivered[k].recipient) =>
                     inv[i].now >= delivered[k].at + D * 60 * 1000
              /\ \A j \in 1..Len(delivered) :
                   (j # k /\ delivered[j].recipient = delivered[k].recipient) =>
                     /\ delivered[j].stepOrder = 2
                     /\ delivered[j].at >= delivered[k].at + D * 60 * 1000

\* a later invocation that runs before the delay has passed has gone through
\* its loops and left the waiting recipient as it was
WaitingRecipientSkipped ==
  \E i \in Invocations, r \in Recipients :
    /\ inv[i].pc = "count"
    /\ r \in DOMAIN inv[i].snap
    /\ inv[i].snap[r].currentStepOrder = 1
    /\ inv[i].snap[r].nextProcessAt > inv[i].now
    /\ rcp[r] = inv[i].snap[r]
    /\ inv[i].entered # {}
    /\ \E k \in 1..Len(delivered) :
         delivered[k].recipient = r /\ delivered[k].stepOrder = 1

\* C10 as stated: the failure branch marks the recipient FAILED with the
\* transport's error as errorMessage, raises failedCount by exactly 1, and
\* leaves currentStepOrder, sentCount, the messages and the ledger unchanged.
FailureRecordsTransportError ==
  [][\A i \in Invocations :
       /\ (inv[i].pc = "f1" /\ inv'[i].pc = "f2") =>
            /\ rcp'[CurRecipient(i)].status = "FAILED"
            /\ rcp'[CurRecipient(i)].errorMessage = inv[i].error
            /\ rcp'[CurRecipient(i)].currentStepOrder = rcp[CurRecipient(i)].currentStepOrder
            /\ UNCHANGED <<campaign, messages, ledger>>
       /\ (inv[i].pc = "f2" /\ inv'[i].pc # "f2") =>
            /\ campaign'.failedCount = campaign.failedCount + 1
            /\ campaign'.sentCount = campaign.sentCount
            /\ UNCHANGED <<rcp, messages, ledger>>]_vars

\* C10 as amended: as stated, except that errorMessage is "Unknown error"
\* when the transport's failure carries no error text.
FailureRecordsErrorOrUnknown ==
  [][\A i \in Invocations :
       /\ (inv[i].pc = "f1" /\ inv'[i].pc = "f2") =>
            /\ rcp'[CurRecipient(i)].status = "FAILED"
            /\ rcp'[CurRecipient(i)].errorMessage =
                 (IF inv[i].error = "" THEN "Unknown error" ELSE inv[i].error)
            /\ rcp'[CurRecipient(i)].currentStepOrder = rcp[CurRecipient(i)].currentStepOrder
            /\ UNCHANGED <<campaign, messages, ledger>>
       /\ (inv[i].pc = "f2" /\ inv'[i].pc # "f2") =>
            /\ campaign'.failedCount = campaign.failedCount + 1
            /\ campaign'.sentCount = campaign.sentCount
            /\ UNCHANGED <<rcp, messages, ledger>>]_vars

\* a transport failure with an error text has been recorded and counted
FailureRecorded ==
  \E r \in Recipients :
    /\ rcp[r].status = "FAILED"
    /\ rcp[r].errorMessage = "user not found"
    /\ campaign.failedCount >= 1
    /\ campaign.sentCount = 0 /\ rcp[r].currentStepOrder = 0

\* C11: with invocations one at a time, an invocation that passed the guards
\* returns with the campaign COMPLETED and completedAt set to its now exactly
\* when no recipient is PENDING or IN_PROGRESS, and no step leaves a
\* COMPLETED campaign with a PENDING or IN_PROGRESS recipient.
CompletedIffNoneOpen ==
  [][/\ \A i \in Invocations :
          (inv[i].pc \in {"count", "mark"} /\ inv'[i].pc = "idle") =>
            ((campaign'.status = "COMPLETED" /\ campaign'.completedAt = inv[i].now)
               <=> \A r \in Recipients : rcp'[r].status \notin {"PENDING", "IN_PROGRESS"})
     /\ campaign'.status = "COMPLETED" =>
          \A r \in Recipients : rcp'[r].status \notin {"PENDING", "IN_PROGRESS"}]_vars

\* the campaign has been marked COMPLETED after a recipient went through its
\* steps and was marked COMPLETED
CampaignCompleted ==
  /\ campaign.status = "COMPLETED"
  /\ campaign.completedAt # NULL
  /\ \E r \in Recipients : rcp[r].status = "COMPLETED"

\* C12: with invocations one at a time, when the loops of an invocation are
\* over and getCookiesForAccount returned null for some account, the
\* recipients of every such account are as they were loaded, and every
\* recipient that was loaded due for another campaign account which had
\* cookies and a daily count below messagesPerDay has been processed: it is
\* FAILED or COMPLETED, or was sent to at the invocation's now.
NoCookiesSkipsOnlyThatAccount ==
  \A i \in Invocations :
    (inv[i].pc = "count" /\ inv[i].noCookies # {}) =>
      \A r \in DOMAIN inv[i].snap :
        LET a == inv[i].snap[r].assignedAccountId
            key == <<a, inv[i].now \div MsPerDay>>
            count == IF key \in DOMAIN inv[i].pre.ledger
                     THEN inv[i].pre.ledger[key] ELSE 0
            due == ~(/\ inv[i].snap[r].nextProcessAt # NULL
                     /\ inv[i].snap[r].nextProcessAt > inv[i].now)
            linked == \E k \in 1..Len(getCampaignAccounts) : getCampaignAccounts[k] = a
        IN /\ a \in inv[i].noCookies => rcp[r] = inv[i].snap[r]
           /\ (linked /\ a \notin inv[i].noCookies /\ due
                 /\ count < inv[i].pre.campaign.messagesPerDay) =>
                \/ rcp[r].status \in {"FAILED", "COMPLETED"}
                \/ rcp[r].status = "IN_PROGRESS" /\ rcp[r].lastProcessedAt = inv[i].now

\* the loops of an invocation are over: the first account had no cookies and
\* its recipient is untouched, the second account's recipient was sent to
OtherAccountProcessed ==
  \E i \in Invocations, r1, r2 \in Recipients :
    /\ inv[i].pc = "count"
    /\ r1 \in DOMAIN inv[i].snap /\ r2 \in DOMAIN inv[i].snap
    /\ rcp[r1].assignedAccountId \in inv[i].noCookies
    /\ rcp[r1] = inv[i].snap[r1]
    /\ rcp[r2].assignedAccountId \in inv[i].entered
    /\ rcp[r2].status = "IN_PROGRESS" /\ rcp[r2].lastProcessedAt = inv[i].now

\* the ledger count of account a on the date of invocation i's now, in ledger l
CountAtNow(i, a, l) ==
  IF <<a, inv[i].now \div MsPerDay>> \in DOMAIN l
  THEN l[<<a, inv[i].now \div MsPerDay>>] ELSE 0

\* while invocation i runs, the loaded recipients of every account whose
\* ledger count was at or above messagesPerDay at the load are as loaded, its
\* ledger count is as it was, and no send is in progress through it
CappedUntouched(i) ==
  inv[i].pc # "idle" =>
    \A a \in Accounts :
      CountAtNow(i, a, inv[i].pre.ledger) >= inv[i].pre.campaign.messagesPerDay =>
        /\ \A r \in DOMAIN inv[i].snap :
             inv[i].snap[r].assignedAccountId = a => rcp[r] = inv[i].snap[r]
        /\ CountAtNow(i, a, ledger) = CountAtNow(i, a, inv[i].pre.ledger)
        /\ ~(/\ inv[i].pc \in {"recipient", "s1", "s2", "s3", "s4", "f1", "f2", "catch"}
             /\ CurAccount(i) = a)

\* C13: with invocations one at a time, the step that reaches an account
\* whose ledger count for the date of now is at or above messagesPerDay
\* changes no table and goes on to the next account without entering the
\* recipient loop, and throughout the invocation the loaded recipients of
\* such an account and its ledger count are as they were at the load and no
\* send is in progress through it.
CappedAccountSkipped ==
  [][\A i \in Invocations :
       /\ (/\ inv[i].pc = "account" /\ inv'[i] # inv[i]
           /\ CountAtNow(i, CurAccount(i), ledger) >= campaign.messagesPerDay) =>
            /\ UNCHANGED <<campaign, rcp, ledger, messages, delivered>>
            /\ inv'[i].pc \in {"account", "count"}
            /\ inv'[i].accountsLeft = Tail(inv[i].accountsLeft)
            /\ CurAccount(i) \notin inv'[i].entered
       /\ CappedUntouched(i)']_vars

\* the loops of an invocation are over; the first account had cookies and
\* due recipients but a ledger count at the limit, and was passed over
CappedAccountPassed ==
  \E i \in Invocations :
    /\ inv[i].pc = "count"
    /\ inv[i].pre.campaign.messagesPerDay >= 1
    /\ CountAtNow(i, "a1", inv[i].pre.ledger) >= inv[i].pre.campaign.messagesPerDay
    /\ "a1" \notin inv[i].noCookies /\ "a1" \notin inv[i].entered
    /\ \E r \in DOMAIN inv[i].snap :
         /\ inv[i].snap[r].assignedAccountId = "a1"
         /\ inv[i].snap[r].nextProcessAt = NULL
         /\ rcp[r] = inv[i].snap[r]

\* when the loops of an invocation are over, every recipient that it loaded
\* due, with cookies for its account, and that was passed over at the daily
\* limit on an earlier UTC date is FAILED or COMPLETED, or was sent to at the
\* invocation's now
ProcessedAfterRollover ==
  \A i \in Invocations :
    inv[i].pc = "count" =>
      \A r \in DOMAIN inv[i].snap :
        (/\ \E d \in {UtcDate(t) : t \in Times} :
              <<r, d>> \in skipped /\ d < UtcDate(inv[i].now)
         /\ inv[i].snap[r].assignedAccountId \notin inv[i].noCookies
         /\ ~(/\ inv[i].snap[r].nextProcessAt # NULL
              /\ inv[i].snap[r].nextProcessAt > inv[i].now)) =>
          \/ rcp[r].status \in {"FAILED", "COMPLETED"}
          \/ rcp[r].status = "IN_PROGRESS" /\ rcp[r].lastProcessedAt = inv[i].now

\* C14: the step that passes a due recipient over because its account is at
\* the daily limit leaves the recipient as it is, PENDING or IN_PROGRESS, and,
\* with invocations one at a time, an invocation on a later UTC date that
\* loads it due and has cookies for its account processes it.
CapSkippedProcessedNextDay ==
  [][/\ skipped' # skipped => rcp' = rcp
     /\ ProcessedAfterRollover']_vars

\* C15: once the campaign has loaded, no step taken while a recipient is
\* being processed (a transport failure, an exception, a rejected persistence
\* call) ends the invocation with a throw, and the step that leaves the
\* failure branch or the catch block leaves the recipient FAILED.
RecipientFailureNeverThrows ==
  [][\A i \in Invocations :
       inv[i].pc \in {"recipient", "s1", "s2", "s3", "s4", "f1", "f2", "catch"} =>
         /\ inv'[i].pc = "idle" => inv'[i].outcome = "returned"
         /\ (inv[i].pc \in {"f1", "catch"} /\ inv'[i].pc # inv[i].pc) =>
              rcp'[CurRecipient(i)].status = "FAILED"]_vars

\* C16: with invocations one at a time, the step out of the catch block
\* leaves the recipient FAILED with the exception's message and the
\* invocation running, and when the loops of an invocation in which an
\* exception was caught are over, every recipient it loaded due for a
\* campaign account with cookies and a daily count below messagesPerDay has
\* been processed: it is FAILED or COMPLETED, or was sent to at now.
ExceptionFailsOnlyThatRecipient ==
  [][\A i \in Invocations :
       /\ (inv[i].pc = "catch" /\ inv'[i].pc # "catch") =>
            /\ rcp'[CurRecipient(i)].status = "FAILED"
            /\ rcp'[CurRecipient(i)].errorMessage = inv[i].error
            /\ inv'[i].pc \in {"recipient", "account", "count"}
            /\ \A r \in Recipients \ {CurRecipient(i)} : rcp'[r] = rcp[r]
       /\ (/\ inv'[i].pc = "count"
           /\ \E r \in DOMAIN inv'[i].snap :
                rcp'[r].status = "FAILED" /\ rcp'[r].errorMessage = ExceptionMessage) =>
            \A r \in DOMAIN inv'[i].snap :
              LET a == inv'[i].snap[r].assignedAccountId
                  key == <<a, inv'[i].now \div MsPerDay>>
                  count == IF key \in DOMAIN inv'[i].pre.ledger
                           THEN inv'[i].pre.ledger[key] ELSE 0
              IN (/\ \E k \in 1..Len(getCampaignAccounts) : getCampaignAccounts[k] = a
                  /\ a \notin inv'[i].noCookies
                  /\ count < inv'[i].pre.campaign.messagesPerDay
                  /\ ~(/\ inv'[i].snap[r].nextProcessAt # NULL
                       /\ inv'[i].snap[r].nextProcessAt > inv'[i].now)) =>
                   \/ rcp'[r].status \in {"FAILED", "COMPLETED"}
                   \/ rcp'[r].status = "IN_PROGRESS" /\ rcp'[r].lastProcessedAt = inv'[i].now]_vars

\* the loops of an invocation are over: the first recipient of an account
\* failed with the exception's message and the account's next recipient was
\* sent to afterwards
SentAfterException ==
  \E i \in Invocations :
    /\ inv[i].pc = "count"
    /\ DOMAIN inv[i].snap = Recipients
    /\ \A r \in Recipients : rcp[r].assignedAccountId = "a1"
    /\ rcp[1].status = "FAILED" /\ rcp[1].errorMessage = ExceptionMessage
    /\ rcp[2].status = "IN_PROGRESS" /\ rcp[2].lastProcessedAt = inv[i].now

\* C17: with invocations one at a time, when the campaign is not RUNNING or
\* has no steps, a call of processCampaign returns at once: no invocation is
\* left running, the call's outcome is a normal return, nothing is delivered
\* and the recipients, the campaign row, the ledger and the messages are
\* unchanged.
GuardsReturnWithoutEffect ==
  [][(NoneRunning /\ (campaign.status # "RUNNING" \/ Len(steps) = 0)) =>
       /\ \A i \in Invocations : inv'[i].pc = "idle"
       /\ \E i \in Invocations : inv'[i].outcome = "returned"
       /\ UNCHANGED <<campaign, rcp, ledger, messages, conversations, delivered>>]_vars

\* processCampaign was called at a later time for a campaign that has steps
\* but is not RUNNING, and returned
ReturnedNotRunning ==
  /\ campaign.status = "DRAFT" /\ Len(steps) > 0
  /\ inv["i1"].pc = "idle" /\ inv["i1"].outcome = "returned"
  /\ clock > 0

\* C18: with invocations one at a time, when the campaign is RUNNING and has
\* steps but no account (no junction row and no legacy account), a call of
\* processCampaign returns normally and changes no table.
NoAccountsReturnsSilently ==
  [][(/\ NoneRunning
      /\ campaign.status = "RUNNING" /\ Len(steps) > 0
      /\ junction = {} /\ legacy = "none") =>
       /\ \A i \in Invocations : inv'[i].pc = "idle"
       /\ \E i \in Invocations : inv'[i].outcome = "returned"
       /\ UNCHANGED <<campaign, rcp, ledger, messages, conversations, delivered>>]_vars

CountReadOnly ==
  [][\A i \in Invocations :
       (inv[i].pc = "account" /\ inv'[i] # inv[i]) =>
         /\ ledger' = ledger
         /\ inv'[i].pc = "recipient" =>
              LET key == <<CurAccount(i), inv[i].now \div MsPerDay>>
              IN inv'[i].dailyCount = (IF key \in DOMAIN ledger THEN ledger[key] ELSE 0)]_vars

\* an invocation on the second UTC date has read 0 for an account that has a
\* row for the first date only, and no row was made for the second date
ZeroReadWithoutRow ==
  \E i \in Invocations :
    /\ inv[i].pc = "recipient"
    /\ inv[i].now \div MsPerDay = 1
    /\ inv[i].dailyCount = 0
    /\ inv[i].recipientsLeft = SetToSeq(DueRecipients(i, CurAccount(i)))
    /\ <<CurAccount(i), 0>> \in DOMAIN ledger
    /\ <<CurAccount(i), 1>> \notin DOMAIN ledger

\* C21: in one assignRecipientsAndSchedule pass, any two timestamps produced
\* for recipients of the same account differ by at least 5 minutes.
MinimumGapKept ==
  \A j, k \in 1..Len(sch.recipientsWithTimes) :
    (/\ j # k
     /\ sch.recipientsWithTimes[j].assignedAccountId = sch.recipientsWithTimes[k].assignedAccountId) =>
      Abs(sch.recipientsWithTimes[j].nextProcessAt - sch.recipientsWithTimes[k].nextProcessAt)
        >= 5 * 60 * 1000

\* C22: every timestamp produced by assignRecipientsAndSchedule has its time
\* of day inside [sendStartTime, sendEndTime), taken modulo 24h for a window
\* that wraps past midnight.
TimeOfDayInWindow ==
  \A k \in 1..Len(sch.recipientsWithTimes) :
    LET timeOfDay == sch.recipientsWithTimes[k].nextProcessAt % MsPerDay
        start == (sch.config.sendStartTime[1] * 60 + sch.config.sendStartTime[2]) * 60 * 1000
        end == (sch.config.sendEndTime[1] * 60 + sch.config.sendEndTime[2]) * 60 * 1000
    IN IF start <= end
       THEN start <= timeOfDay /\ timeOfDay < end
       ELSE start <= timeOfDay \/ timeOfDay < end

\* the UTC date the k-th scheduled recipient is due on by its account's quota:
\* today's when the ledger count of its account plus the number of recipients
\* scheduled before it for that account in this pass is below messagesPerDay,
\* the next day's otherwise
QuotaDate(k) ==
  LET a == sch.recipientsWithTimes[k].assignedAccountId
      key == <<a, sch.today \div MsPerDay>>
      count == IF key \in DOMAIN ledger THEN ledger[key] ELSE 0
      before == Cardinality({j \in 1..(k - 1) : sch.recipientsWithTimes[j].assignedAccountId = a})
  IN IF count + before < sch.config.messagesPerDay
     THEN sch.today \div MsPerDay
     ELSE sch.today \div MsPerDay + 1

MissingNameRendersThere ==
  (/\ rendering.pc = "returned"
   /\ rendering.template = <<"Hi ", "{{name}}", ", @", "{{username}}">>
   /\ rendering.contact.igUsername = <<"abc">>) =>
    /\ rendering.contact.name = <<>> => rendering.message = "Hi there, @abc"
    /\ rendering.contact.name = <<"Sam">> => rendering.message = "Hi Sam, @abc"

\* C24 as amended: "Hi {{name}}, @{{username}}" renders as "Hi abc, @abc" for
\* a contact with name null and igUsername "abc" (a missing name renders as
\* the username), as "Hi Sam, @abc" for name "Sam" and igUsername "abc", and
\* as "Hi there, @" for a contact with neither name nor igUsername.
MissingNameRendersUsername ==
  (/\ rendering.pc = "returned"
   /\ rendering.template = <<"Hi ", "{{name}}", ", @", "{{username}}">>) =>
    /\ (rendering.contact.name = <<>> /\ rendering.contact.igUsername = <<"abc">>) =>
         rendering.message = "Hi abc, @abc"
    /\ (rendering.contact.name = <<"Sam">> /\ rendering.contact.igUsername = <<"abc">>) =>
         rendering.message = "Hi Sam, @abc"
    /\ (rendering.contact.name = <<>> /\ rendering.contact.igUsername = <<>>) =>
         rendering.message = "Hi there, @"

\* the template has been rendered for the contact with name null and
\* igUsername "abc"
RenderedWithoutName ==
  /\ rendering.pc = "returned"
  /\ rendering.template = <<"Hi ", "{{name}}", ", @", "{{username}}">>
  /\ rendering.contact = [name |-> <<>>, igUsername |-> <<"abc">>]
  /\ rendering.message # ""

\* every delivery is counted once: sentCount is the number of deliveries, each
\* delivery has its Message row, and the ledger count of every account and
\* date is what the account had sent before plus its deliveries of that date
DeliveredCounted ==
  /\ campaign.sentCount = Len(delivered)
  /\ Cardinality({k \in 1..Len(messages) : messages[k].stepOrder # 0}) = Len(delivered)
  /\ \A a \in Accounts, d \in {t \div MsPerDay : t \in Times} :
       LET count == IF <<a, d>> \in DOMAIN ledger THEN ledger[<<a, d>>] ELSE 0
           before == Cardinality({k \in 1..Len(messages) :
                                    /\ messages[k].stepOrder = 0 /\ messages[k].account = a
                                    /\ messages[k].sentAt \div MsPerDay = d})
           sent == Cardinality({k \in 1..Len(delivered) :
                                  /\ delivered[k].account = a
                                  /\ delivered[k].at \div MsPerDay = d})
       IN count = before + sent

\* C25: with invocations one at a time and persistence calls that may reject,
\* the step out of the catch block does not leave FAILED a recipient to whom
\* the invocation has delivered the current step, and whenever no invocation
\* is running every delivery is counted exactly once in sentCount, in the
\* Message rows and in the ledger.
PartialFailureStillCounted ==
  [][/\ \A i \in Invocations :
          (/\ inv[i].pc = "catch" /\ inv'[i].pc # "catch"
           /\ \E k \in 1..Len(delivered) :
                /\ delivered[k].recipient = Head(inv[i].recipientsLeft)
                /\ delivered[k].at = inv[i].now
                /\ delivered[k].stepOrder
                     = inv[i].snap[Head(inv[i].recipientsLeft)].currentStepOrder + 1) =>
            rcp'[Head(inv[i].recipientsLeft)].status # "FAILED"
     /\ (\A i \in Invocations : inv'[i].pc = "idle") => DeliveredCounted']_vars

AssignedAccountKept ==
  [][/\ \A r \in Recipients : rcp'[r].assignedAccountId = rcp[r].assignedAccountId
     /\ \A k \in 1..Len(delivered') :
          delivered'[k].account = rcp'[delivered'[k].recipient].assignedAccountId
     /\ \A k \in 1..Len(messages') :
          messages'[k].stepOrder # 0 =>
            /\ messages'[k].account = rcp'[messages'[k].contact].assignedAccountId
            /\ <<messages'[k].account, messages'[k].contact>> \in conversations']_vars

\* recipients assigned to different accounts have each been sent to, and the
\* Message rows are recorded
SentThroughBothAccounts ==
  \E j, k \in 1..Len(messages) :
    /\ messages[j].stepOrder # 0 /\ messages[k].stepOrder # 0
    /\ messages[j].account = "a1" /\ messages[k].account = "a2"
    /\ rcp[messages[j].contact].assignedAccountId = "a1"
    /\ rcp[messages[k].contact].assignedAccountId = "a2"

\* C28: getCampaignAccounts gives exactly the accounts linked through the
\* junction, each once, when there is at least one, otherwise exactly the
\* legacy account when the campaign has one, otherwise nothing; and an
\* invocation that passes the guards works through exactly these accounts,
\* while one that finds none throws.
AccountsFromJunctionFirst ==
  [][/\ LET got == {getCampaignAccounts[k] : k \in 1..Len(getCampaignAccounts)}
        IN /\ Len(getCampaignAccounts) = Cardinality(got)
           /\ junction # {} => got = junction
           /\ (junction = {} /\ legacy # "none") => got = {legacy}
           /\ (junction = {} /\ legacy = "none") => got = {}
     /\ \A i \in Invocations :
          /\ (inv[i].pc = "idle" /\ inv'[i].pc = "account") =>
               LET left == {inv'[i].accountsLeft[k] : k \in 1..Len(inv'[i].accountsLeft)}
               IN /\ Len(inv'[i].accountsLeft) = Cardinality(left)
                  /\ left = IF junction # {} THEN junction ELSE {legacy}
                  /\ "none" \notin left
          /\ (inv[i].pc = "idle" /\ inv'[i].outcome = "threw") =>
               junction = {} /\ legacy = "none"]_vars

\* an invocation has loaded a campaign that has one account in the junction
\* and another as its legacy account, and works through the junction's only
JunctionAccountLoaded ==
  \E i \in Invocations :
    /\ inv[i].pc = "account"
    /\ junction = {"a1"} /\ legacy = "a2"
    /\ inv[i].accountsLeft = <<"a1">>

\* C29: with invocations one at a time, in a campaign whose messagesPerDay is
\* 0 the step that reaches an account with cookies and due recipients enters
\* the recipient loop for them, and no recipient is passed over for quota.
ZeroMeansNoLimit ==
  [][\A i \in Invocations :
       (/\ campaign.messagesPerDay = 0
        /\ inv[i].pc = "account" /\ inv'[i] # inv[i]
        /\ DueRecipients(i, CurAccount(i)) # {}
        /\ CurAccount(i) \notin inv'[i].noCookies) =>
         /\ inv'[i].pc = "recipient"
         /\ Head(inv'[i].recipientsLeft) \in DueRecipients(i, CurAccount(i))
         /\ skipped' = skipped]_vars

\* C30: if processCampaign keeps being invoked, the sessions stay available,
\* the transport always answers and time keeps moving on, a RUNNING campaign
\* eventually is COMPLETED with every recipient COMPLETED or FAILED.
RunningLeadsToCompleted ==
  (campaign.status = "RUNNING") ~>
    (/\ campaign.status = "COMPLETED"
     /\ \A r \in Recipients : rcp[r].status \in {"COMPLETED", "FAILED"})

\* the sum of currentStepOrder over the recipients 1..n
RECURSIVE StepOrderSum(_)
StepOrderSum(n) ==
  IF n = 0 THEN 0 ELSE rcp[n].currentStepOrder + StepOrderSum(n - 1)

\* the OUTBOUND Message rows the campaign created
CampaignMessageRows ==
  {k \in 1..Len(messages) : messages[k].stepOrder # 0 /\ messages[k].direction = "OUTBOUND"}

\* C31: with invocations one at a time, whenever no invocation is running
\* sentCount equals the sum of currentStepOrder over the recipients and the
\* number of OUTBOUND Message rows the campaign created; while an invocation
\* is between the writes of one send, the three differ by that one send at
\* most: sentCount <= Message rows <= sum of currentStepOrder <= sentCount + 1.
SentCountIsStepsSent ==
  LET stepsSent == StepOrderSum(NumRecipients)
      rows == Cardinality(CampaignMessageRows)
  IN /\ NoneRunning =>
          /\ campaign.sentCount = stepsSent
          /\ campaign.sentCount = rows
     /\ campaign.sentCount <= rows
     /\ rows <= stepsSent
     /\ stepsSent <= campaign.sentCount + 1

\* invocations have returned after both steps were sent to one recipient and
\* a step to another
ThreeStepsCounted ==
  /\ NoneRunning
  /\ campaign.sentCount >= 3
  /\ \E r \in Recipients : rcp[r].currentStepOrder = 2

\* C32: with invocations one at a time, whenever no invocation is running
\* failedCount equals the number of recipients whose status is FAILED.
FailedCountIsFailedRecipients ==
  NoneRunning =>
    campaign.failedCount = Cardinality({r \in Recipients : rcp[r].status = "FAILED"})


\* C34: with overlapping invocations, no step moves a recipient that is
\* FAILED or COMPLETED to IN_PROGRESS, and no step leaves the campaign
\* COMPLETED while a recipient is PENDING or IN_PROGRESS.
ClosedStaysClosedOverlapping ==
  [][/\ \A r \in Recipients :
          rcp[r].status \in {"FAILED", "COMPLETED"} =>
            rcp'[r].status # "IN_PROGRESS"
     /\ campaign'.status = "COMPLETED" =>
          \A r \in Recipients : rcp'[r].status \notin {"PENDING", "IN_PROGRESS"}]_vars

\* C35: with overlapping invocations, no step of the system lowers a
\* recipient's currentStepOrder below the value another invocation wrote.
StepOrderKeptOverlapping ==
  [][\A r \in Recipients :
       ~(rcp'[r].currentStepOrder < rcp[r].currentStepOrder)]_vars


\* the time of day of a timestamp is inside the campaign's send window
\* [send_start_time, send_end_time), taken modulo 24h for a window that wraps
InSendWindow(t) ==
  LET timeOfDay == t % MsPerDay
      start == (send_start_time[1] * 60 + send_start_time[2]) * MsPerMinute
      end == (send_end_time[1] * 60 + send_end_time[2]) * MsPerMinute
  IN IF start <= end
     THEN start <= timeOfDay /\ timeOfDay < end
     ELSE start <= timeOfDay \/ timeOfDay < end

\* C36: every message the transport delivered for the campaign, first step
\* or follow-up, was sent at a time of day inside the campaign's send window.
SendsInsideWindow ==
  \A k \in 1..Len(delivered) : InSendWindow(delivered[k].at)


\* C33: no invocation that started after an account was deactivated
\* (isActive = false) sends a message through that account: whenever the
\* transport delivers for an invocation, the account it sends through is
\* active, or was deactivated while that invocation was already running.
DeactivatedAccountNeverSends ==
  [][\A i \in Invocations :
       (AboutToSend(i) /\ inv'[i].pc = "s1") =>
         \/ accountRows[CurAccount(i)].isActive
         \/ i \in accountRows[CurAccount(i)].inFlight]_vars


\* C37: for a campaign with the legacy account reference only, an available
\* session, steps without variants, every recipient assigned to that account
\* and no recipient passed over at the daily cap, whenever no invocation is
\* running the tables of the multi-account processCampaign equal those the
\* legacy processCampaign leaves after the same invocations and transport
\* outcomes: the recipients' status, currentStepOrder and nextProcessAt,
\* sentCount and failedCount, the Message rows and the campaign status.
LegacyAgrees ==
  (NoneRunning /\ skipped = {}) =>
    /\ \A r \in Recipients :
         /\ legacyRun.rcp[r].status = rcp[r].status
         /\ legacyRun.rcp[r].currentStepOrder = rcp[r].currentStepOrder
         /\ legacyRun.rcp[r].nextProcessAt = rcp[r].nextProcessAt
    /\ legacyRun.campaign.sentCount = campaign.sentCount
    /\ legacyRun.campaign.failedCount = campaign.failedCount
    /\ legacyRun.messages = messages
    /\ legacyRun.campaign.status = campaign.status

\* both services have sent two steps, had a send fail or throw, and marked
\* the campaign COMPLETED
BothRanToCompletion ==
  /\ NoneRunning /\ skipped = {}
  /\ campaign.status = "COMPLETED" /\ legacyRun.campaign.status = "COMPLETED"
  /\ campaign.sentCount >= 2 /\ Len(legacyRun.messages) >= 2
  /\ \E r \in Recipients : rcp[r].status = "FAILED" /\ legacyRun.rcp[r].status = "FAILED"


\* no webhook call and no getOrCreateConversation call is in progress
WebhookQuiet ==
  /\ \A h \in Handlers : webhook.handlers[h].pc = "idle"
  /\ webhook.sendSide.pc = "idle"

====
